---- MODULE Spec2Model ----
(***************************************************************************)
(* A model of the EMS-bus layer-2 driver (emsbus.py), of its finite state  *)
(* machine library (bfsm.py) and of its watchdog timer (watchdog.py).      *)
(*                                                                         *)
(* Octets are naturals 0..255 and frames are sequences of octets.  The     *)
(* threads of the driver are modelled as processes with a program counter; *)
(* a step of the model is a run of consecutive statements of one thread.   *)
(*                                                                         *)
(* emsbus.py creates its state machines as bfsm.Bfsm( matrix, vector of    *)
(* state actions ) and stores the actions as methods bound to the driver.  *)
(* The model follows that calling convention: the second argument is the   *)
(* state action vector and an action runs on the driver instance.  The     *)
(* interpreter itself is the one of bfsm.py (_Interpret).                  *)
(***************************************************************************)
EXTENDS Naturals, Integers, Sequences, FiniteSets, TLC

(***************************************************************************)
(* Program constants.                                                      *)
(***************************************************************************)
EMS_Destin == 1
EMS_Type == 2
EMSBUS_Min_frame_size == 4
EMSBUS_Max_frame_size == 34
SERIAL_Escape == 255
SERIAL_FrmErr == 0
EMSBUS_MODE_MONITOR == 1
EMSBUS_MODE_PARTCPT == 2
EMSBUS_MODE_MONPART == 3

EMS_Write_reply == {1, 4}

\* b'ERR', the payload that replaces an erred or short frame
ERR == <<69, 82, 82>>

\* The device identifier given to the constructor (the bus master's, as in
\* the scenarios of the documentation).
Device == 11

(***************************************************************************)
(* Bit operations on octets and device identifiers.                        *)
(***************************************************************************)
RECURSIVE BitAnd(_, _)
BitAnd(a, b) ==
  IF a = 0 \/ b = 0 THEN 0
  ELSE ((a % 2) * (b % 2)) + 2 * BitAnd(a \div 2, b \div 2)

RECURSIVE BitOr(_, _)
BitOr(a, b) ==
  IF a = 0 THEN b
  ELSE IF b = 0 THEN a
  ELSE (IF a % 2 = 1 \/ b % 2 = 1 THEN 1 ELSE 0) + 2 * BitOr(a \div 2, b \div 2)

(***************************************************************************)
(* A Python integer of any width, as the sequence of its bits, the least   *)
(* significant bit first.  The accumulator of _calc_checksum is one: it is *)
(* shifted left once per octet and never masked inside the loop.           *)
(***************************************************************************)
RECURSIVE ToBits(_)
ToBits(n) == IF n = 0 THEN <<>> ELSE <<n % 2>> \o ToBits(n \div 2)

BitAt(x, i) == IF i <= Len(x) THEN x[i] ELSE 0

RECURSIVE BigXor(_, _)
BigXor(x, y) ==
  IF Len(x) = 0 THEN y
  ELSE IF Len(y) = 0 THEN x
  ELSE <<(Head(x) + Head(y)) % 2>> \o BigXor(Tail(x), Tail(y))

BigShl1(x) == <<0>> \o x

BigOr1(x) == IF Len(x) = 0 THEN <<1>> ELSE <<1>> \o Tail(x)

\* x >= 0x80: the test on an accumulator taken as an octet
BigAtLeast128(x) == \E i \in 8..Len(x) : x[i] = 1

\* x & 0x80, as a truth value
BigBit7(x) == BitAt(x, 8) = 1

\* x & 0xff
BigLow8(x) ==
  BitAt(x, 1) + 2 * BitAt(x, 2) + 4 * BitAt(x, 3) + 8 * BitAt(x, 4)
  + 16 * BitAt(x, 5) + 32 * BitAt(x, 6) + 64 * BitAt(x, 7) + 128 * BitAt(x, 8)

(***************************************************************************)
(* _calc_checksum.  The last octet of the buffer (the place of the         *)
(* checksum) takes no part.  The callers never pass a buffer shorter than  *)
(* 2 octets (that raises ValueError).                                      *)
(***************************************************************************)
RECURSIVE ChecksumLoop(_, _, _)
ChecksumLoop(bfr, i, chks) ==
  IF i > Len(bfr) - 1 THEN chks
  ELSE IF BigBit7(chks)
    THEN ChecksumLoop(bfr, i + 1,
           BigXor(BigOr1(BigShl1(BigXor(chks, ToBits(12)))), ToBits(bfr[i])))
    ELSE ChecksumLoop(bfr, i + 1, BigXor(BigShl1(chks), ToBits(bfr[i])))

CalcChecksum(bfr) == BigLow8(ChecksumLoop(bfr, 1, <<>>))

(***************************************************************************)
(* bytearray.find( octet, start ): the 0-based index of the first octet    *)
(* equal to b at or after index start, or -1.                              *)
(***************************************************************************)
RECURSIVE Find(_, _, _)
Find(s, b, start) ==
  IF start >= Len(s) THEN -1
  ELSE IF s[start + 1] = b THEN start
  ELSE Find(s, b, start + 1)

(***************************************************************************)
(* The character handling of _handle_iframe: the loop that removes the     *)
(* framing error indicators and restores doubled 0xff octets.  octpos is   *)
(* the 0-based index of the escape octet found last (-1: none).            *)
(***************************************************************************)
RECURSIVE UnescapeLoop(_, _, _)
UnescapeLoop(iframe, octpos, err) ==
  IF octpos < 0 THEN [frame |-> iframe, err |-> err]
  ELSE
    LET p == octpos + 1
        n == Len(iframe)
    IN  IF p >= n THEN [frame |-> iframe, err |-> err]
        ELSE IF iframe[p + 1] = SERIAL_Escape THEN
          IF p + 1 < n
          THEN LET g == SubSeq(iframe, 1, p) \o SubSeq(iframe, p + 2, n)
               IN  UnescapeLoop(g, Find(g, SERIAL_Escape, p), err)
          ELSE [frame |-> SubSeq(iframe, 1, p), err |-> err]
        ELSE IF iframe[p + 1] = SERIAL_FrmErr THEN
          IF p + 1 < n
          THEN LET g == SubSeq(iframe, 1, p - 1) \o SubSeq(iframe, p + 2, n)
               IN  UnescapeLoop(g, Find(g, SERIAL_Escape, p), err + 1)
          ELSE UnescapeLoop(iframe, Find(iframe, SERIAL_Escape, p), err)
        ELSE UnescapeLoop(iframe, Find(iframe, SERIAL_Escape, p), err)

Unescape(raw) == UnescapeLoop(raw, Find(raw, SERIAL_Escape, 0), 0)

\* a variant of the line discipline that doubles no octet
EscapeNothing(f) == f

(***************************************************************************)
(* The octets a UART with PARMRK set delivers for a transmitted frame: a   *)
(* genuine 0xff octet is doubled.                                          *)
(***************************************************************************)
RECURSIVE Escape(_)
Escape(f) ==
  IF Len(f) = 0 THEN <<>>
  ELSE (IF Head(f) = SERIAL_Escape THEN <<SERIAL_Escape, SERIAL_Escape>>
                                   ELSE <<Head(f)>>) \o Escape(Tail(f))

(***************************************************************************)
(* self.eframe: None, or the frame the writer sent last.                   *)
(***************************************************************************)
NoFrame == [set |-> FALSE, f |-> <<>>]
SomeFrame(f) == [set |-> TRUE, f |-> f]

\* a framer that takes every check-sum for correct
ChecksumAny(iframe) == TRUE

\* self.iframe[-1] == self._calc_checksum( self.iframe )
ChecksumOk(iframe) == iframe[Len(iframe)] = CalcChecksum(iframe)

(***************************************************************************)
(* _handle_iframe, as a function of the raw frame the reader assembled and *)
(* of self.eframe.  The result tells which branch was taken (kind), the    *)
(* payloads put on iframe_queue (out, none or one), the number of erred    *)
(* octets (err), whether the frame is an EMS-plus frame and the new value  *)
(* of self.eframe.                                                         *)
(***************************************************************************)
HandleIframe(raw, ef) ==
  LET u == Unescape(raw)
      iframe == u.frame
      res(kind, out, plus, nef) ==
        [kind |-> kind, out |-> out, err |-> u.err, plus |-> plus,
         eframe |-> nef, len |-> Len(iframe)]
  IN  IF ef.set /\ iframe = ef.f
        THEN res("echo", <<>>, FALSE, NoFrame)
      ELSE IF u.err > 0
        THEN res("erred", <<ERR>>, FALSE, ef)
      ELSE IF Len(iframe) = 0
        THEN res("empty", <<>>, FALSE, ef)
      ELSE IF Len(iframe) = 1
        THEN res("single", <<iframe>>, FALSE, ef)
      ELSE IF Len(iframe) <= EMSBUS_Min_frame_size
        THEN res("short", <<ERR>>, FALSE, ef)
      ELSE IF ChecksumOk(iframe)
        THEN res("normal", <<SubSeq(iframe, 1, Len(iframe) - 1)>>,
                 iframe[EMS_Type + 1] >= 240, ef)
      ELSE res("badsum", <<ERR>>, FALSE, ef)

(***************************************************************************)
(* The type the ingress dispatcher gives a frame before it invokes the     *)
(* FSM.  A frame of two octets is taken for a signal and its type is made  *)
(* by string concatenation, which raises TypeError for octets ("raise").   *)
(***************************************************************************)
IngressType(frame) ==
  IF Len(frame) = 1 THEN
    IF BitAnd(frame[1], 128) # 0 THEN "polreq"
    ELSE IF frame[1] \in EMS_Write_reply THEN "wrirep"
    ELSE "polrep"
  ELSE IF Len(frame) = 2 THEN "raise"
  ELSE IF frame = ERR THEN "errfrm"
  ELSE IF frame[EMS_Destin + 1] = 0 THEN "rearep"
  ELSE IF BitAnd(frame[EMS_Destin + 1], 128) # 0 THEN "reareq"
  ELSE "rporwq"

(***************************************************************************)
(* The type the egress dispatcher gives a frame of the user application;   *)
(* "none" when the frame is not passed to the FSM, "raise" for a frame of  *)
(* two octets (string concatenation with octets raises TypeError).         *)
(***************************************************************************)
EgressType(frame) ==
  LET lf == Len(frame)
  IN  IF lf = 1 THEN (IF frame[1] \in EMS_Write_reply THEN "wrirep" ELSE "none")
      ELSE IF lf = 2 THEN "raise"
      ELSE IF lf < EMSBUS_Min_frame_size THEN "none"
      ELSE IF lf > EMSBUS_Max_frame_size THEN "none"
      ELSE IF frame[EMS_Destin + 1] = 0 THEN "rearep"
      ELSE IF BitAnd(frame[EMS_Destin + 1], 128) # 0 THEN "reareq"
      ELSE "rporwq"

(***************************************************************************)
(* The transition matrices FSMDT: per state and stimulus the new state and *)
(* the event action.                                                       *)
(***************************************************************************)
MonitorIngress ==
  [ Init |->
    [ polreq |-> <<"Init", "ifsm_ignore_frame">>,
      polrep |-> <<"Init", "ifsm_ignore_frame">>,
      reareq |-> <<"RxRq", "ifsm_forward_frame">>,
      rearep |-> <<"Init", "ifsm_handle_rearep">>,
      wrireq |-> <<"RxWq", "ifsm_forward_frame">>,
      wrirep |-> <<"Init", "ifsm_reppe_and_forf">>,
      rporwq |-> <<"Init", "ifsm_do_wrireq">>,
      errfrm |-> <<"RxEf", "ifsm_ignore_frame">>,
      timout |-> <<"Init", "ifsm_do_nothing">> ],
    RxRq |->
    [ polreq |-> <<"Init", "ifsm_reppe_and_ignf">>,
      polrep |-> <<"Init", "ifsm_reppe_and_ignf">>,
      reareq |-> <<"RxRq", "ifsm_reppe_and_forf">>,
      rearep |-> <<"Init", "ifsm_forward_frame">>,
      wrireq |-> <<"RxWq", "ifsm_reppe_and_forf">>,
      wrirep |-> <<"Init", "ifsm_reppe_and_forf">>,
      rporwq |-> <<"RxRq", "ifsm_do_rearep">>,
      errfrm |-> <<"RxEf", "ifsm_ignore_frame">>,
      timout |-> <<"Init", "ifsm_do_nothing">> ],
    RxWq |->
    [ polreq |-> <<"Init", "ifsm_reppe_and_ignf">>,
      polrep |-> <<"Init", "ifsm_reppe_and_ignf">>,
      reareq |-> <<"RxRq", "ifsm_reppe_and_forf">>,
      rearep |-> <<"Init", "ifsm_reppe_and_forf">>,
      wrireq |-> <<"RxWq", "ifsm_reppe_and_forf">>,
      wrirep |-> <<"Init", "ifsm_forward_frame">>,
      rporwq |-> <<"Init", "ifsm_do_wrireq">>,
      errfrm |-> <<"RxEf", "ifsm_ignore_frame">>,
      timout |-> <<"Init", "ifsm_do_nothing">> ],
    RxEf |->
    [ polreq |-> <<"Init", "ifsm_ignore_frame">>,
      polrep |-> <<"Init", "ifsm_ignore_frame">>,
      reareq |-> <<"RxRq", "ifsm_forward_frame">>,
      rearep |-> <<"Init", "ifsm_forward_frame">>,
      wrireq |-> <<"RxWq", "ifsm_forward_frame">>,
      wrirep |-> <<"Init", "ifsm_forward_frame">>,
      rporwq |-> <<"Init", "ifsm_do_rearep">>,
      errfrm |-> <<"RxEf", "ifsm_ignore_frame">>,
      timout |-> <<"Init", "ifsm_do_nothing">> ] ]

MonitorEgress ==
  [ Init |->
    [ rcvpq  |-> <<"Init", "efsm_do_nothing">>,
      rcvrq  |-> <<"Init", "efsm_do_nothing">>,
      rcvwq  |-> <<"Init", "efsm_do_nothing">>,
      rcvxd  |-> <<"Init", "efsm_do_nothing">>,
      reareq |-> <<"Init", "efsm_ignore_frame">>,
      rearep |-> <<"Init", "efsm_ignore_frame">>,
      wrireq |-> <<"Init", "efsm_ignore_frame">>,
      wrirep |-> <<"Init", "efsm_ignore_frame">>,
      rporwq |-> <<"Init", "efsm_ignore_frame">> ] ]

ParticipateIngress ==
  [ Init |->
    [ polreq |-> <<"Init", "ifsm_passon_polreq">>,
      polrep |-> <<"Init", "ifsm_check_polrep">>,
      reareq |-> <<"Init", "ifsm_passon_reareq">>,
      rearep |-> <<"Init", "ifsm_passon_rearep">>,
      xmtrq  |-> <<"XmRq", "ifsm_do_nothing">>,
      wrireq |-> <<"Init", "ifsm_passon_wrireq">>,
      wrirep |-> <<"Init", "ifsm_ignore_frame">>,
      xmtwq  |-> <<"XmWq", "ifsm_do_nothing">>,
      rporwq |-> <<"Init", "ifsm_do_wrireq">>,
      errfrm |-> <<"Init", "ifsm_ignore_frame">>,
      timout |-> <<"Init", "ifsm_do_nothing">> ],
    XmRq |->
    [ polreq |-> <<"Init", "ifsm_reppe_and_ignf">>,
      polrep |-> <<"Init", "ifsm_reppe_and_ignf">>,
      reareq |-> <<"Init", "ifsm_reppe_and_ignf">>,
      rearep |-> <<"Init", "ifsm_reprxd_and_forf">>,
      xmtrq  |-> <<"XmRq", "ifsm_report_error">>,
      wrireq |-> <<"Init", "ifsm_reppe_and_ignf">>,
      wrirep |-> <<"Init", "ifsm_reppe_and_ignf">>,
      xmtwq  |-> <<"XmRq", "ifsm_report_error">>,
      rporwq |-> <<"XmRq", "ifsm_do_rearep">>,
      errfrm |-> <<"Init", "ifsm_ignore_frame">>,
      timout |-> <<"Init", "ifsm_do_nothing">> ],
    XmWq |->
    [ polreq |-> <<"Init", "ifsm_reppe_and_ignf">>,
      polrep |-> <<"Init", "ifsm_reppe_and_ignf">>,
      reareq |-> <<"Init", "ifsm_reppe_and_ignf">>,
      rearep |-> <<"Init", "ifsm_reppe_and_ignf">>,
      xmtrq  |-> <<"XmWq", "ifsm_report_error">>,
      wrireq |-> <<"XmWq", "ifsm_reppe_and_ignf">>,
      wrirep |-> <<"Init", "ifsm_repwxd_and_forf">>,
      xmtwq  |-> <<"XmWq", "ifsm_report_error">>,
      rporwq |-> <<"Init", "ifsm_reppe_and_ignf">>,
      errfrm |-> <<"Init", "ifsm_ignore_frame">>,
      timout |-> <<"Init", "ifsm_do_nothing">> ] ]

ParticipateEgress ==
  [ Init |->
    [ rcvpq  |-> <<"Init", "efsm_send_polrep">>,
      rcvrq  |-> <<"WiRp", "efsm_do_nothing">>,
      rcvwq  |-> <<"WiWp", "efsm_do_nothing">>,
      rcvxd  |-> <<"Init", "efsm_report_error">>,
      reareq |-> <<"WePq", "efsm_buffer_frame">>,
      rearep |-> <<"WePq", "efsm_buffer_frame">>,
      wrireq |-> <<"WePq", "efsm_buffer_frame">>,
      wrirep |-> <<"Init", "efsm_reppe_and_ignf">>,
      rporwq |-> <<"Init", "efsm_do_wrireq">>,
      bufemp |-> <<"Init", "efsm_do_nothing">>,
      timout |-> <<"Init", "efsm_do_nothing">> ],
    WiRp |->
    [ rcvpq  |-> <<"Init", "efsm_send_polrep">>,
      rcvrq  |-> <<"WiRp", "efsm_report_error">>,
      rcvwq  |-> <<"WiRp", "efsm_report_error">>,
      rcvxd  |-> <<"WiRp", "efsm_report_error">>,
      reareq |-> <<"WiRpb", "efsm_buffer_frame">>,
      rearep |-> <<"Init", "efsm_forward_frame">>,
      wrireq |-> <<"WiRp", "efsm_reppe_and_ignf">>,
      wrirep |-> <<"WiRp", "efsm_reppe_and_ignf">>,
      rporwq |-> <<"WiRp", "efsm_do_rearep">>,
      bufemp |-> <<"Init", "efsm_ignore_frame">>,
      timout |-> <<"Init", "efsm_do_nothing">> ],
    WiRpb |->
    [ rcvpq  |-> <<"WePq", "efsm_send_polrep">>,
      rcvrq  |-> <<"WiRpb", "efsm_report_error">>,
      rcvwq  |-> <<"WiRpb", "efsm_report_error">>,
      rcvxd  |-> <<"WiRpb", "efsm_report_error">>,
      reareq |-> <<"WiRpb", "efsm_buffer_frame">>,
      rearep |-> <<"WePq", "efsm_forward_frame">>,
      wrireq |-> <<"WiRpb", "efsm_reppe_and_ignf">>,
      wrirep |-> <<"WiRpb", "efsm_reppe_and_ignf">>,
      rporwq |-> <<"WiRpb", "efsm_do_rearep">>,
      bufemp |-> <<"WiRpb", "efsm_report_error">>,
      timout |-> <<"WePq", "efsm_do_nothing">> ],
    WiWp |->
    [ rcvpq  |-> <<"Init", "efsm_send_polrep">>,
      rcvrq  |-> <<"WiRp", "efsm_report_error">>,
      rcvwq  |-> <<"WiWp", "efsm_report_error">>,
      rcvxd  |-> <<"WiWp", "efsm_report_error">>,
      reareq |-> <<"WiWpb", "efsm_buffer_frame">>,
      rearep |-> <<"WiWpb", "efsm_buffer_frame">>,
      wrireq |-> <<"WiWpb", "efsm_buffer_frame">>,
      wrirep |-> <<"Init", "efsm_forward_frame">>,
      rporwq |-> <<"WiWp", "efsm_do_wrireq">>,
      bufemp |-> <<"WiWp", "efsm_report_error">>,
      timout |-> <<"Init", "efsm_do_nothing">> ],
    WiWpb |->
    [ rcvpq  |-> <<"WePq", "efsm_send_polrep">>,
      rcvrq  |-> <<"WiWpb", "efsm_report_error">>,
      rcvwq  |-> <<"WiWpb", "efsm_report_error">>,
      rcvxd  |-> <<"WiWpb", "efsm_report_error">>,
      reareq |-> <<"WiWpb", "efsm_buffer_frame">>,
      rearep |-> <<"WiWpb", "efsm_buffer_frame">>,
      wrireq |-> <<"WiRpb", "efsm_buffer_frame">>,
      wrirep |-> <<"WePq", "efsm_forward_frame">>,
      rporwq |-> <<"WiRpb", "efsm_do_wrireq">>,
      bufemp |-> <<"WiWpb", "efsm_report_error">>,
      timout |-> <<"WePq", "efsm_do_nothing">> ],
    WePq |->
    [ rcvpq  |-> <<"WeXd", "efsm_forward_buffer">>,
      rcvrq  |-> <<"WiRpb", "efsm_do_nothing">>,
      rcvwq  |-> <<"WiWpb", "efsm_do_nothing">>,
      rcvxd  |-> <<"WePq", "efsm_report_error">>,
      reareq |-> <<"WePq", "efsm_buffer_frame">>,
      rearep |-> <<"WePq", "efsm_buffer_frame">>,
      wrireq |-> <<"WePq", "efsm_buffer_frame">>,
      wrirep |-> <<"WePq", "efsm_reppe_and_ignf">>,
      rporwq |-> <<"WePq", "efsm_do_wrireq">>,
      bufemp |-> <<"WePq", "efsm_report_error">>,
      timout |-> <<"WePq", "efsm_do_nothing">> ],
    WeXd |->
    [ rcvpq  |-> <<"WeXd", "efsm_report_error">>,
      rcvrq  |-> <<"WeXd", "efsm_report_error">>,
      rcvwq  |-> <<"WeXd", "efsm_report_error">>,
      rcvxd  |-> <<"WePq", "efsm_send_polrep">>,
      reareq |-> <<"WeXd", "efsm_buffer_frame">>,
      rearep |-> <<"WeXd", "efsm_buffer_frame">>,
      wrireq |-> <<"WeXd", "efsm_buffer_frame">>,
      wrirep |-> <<"WeXd", "efsm_reppe_and_ignf">>,
      rporwq |-> <<"WeXd", "efsm_do_wrireq">>,
      bufemp |-> <<"WeXd", "efsm_report_error">>,
      timout |-> <<"WePq", "efsm_send_polrep">> ] ]

\* the modes that are a key of the dictionaries FSMDT and FSMSA
FSMDTModes == {EMSBUS_MODE_MONITOR, EMSBUS_MODE_PARTCPT}

FSMDT(m, gress) ==
  CASE m = EMSBUS_MODE_MONITOR ->
         (IF gress = "ingress" THEN MonitorIngress ELSE MonitorEgress)
    [] m = EMSBUS_MODE_PARTCPT ->
         (IF gress = "ingress" THEN ParticipateIngress ELSE ParticipateEgress)

(***************************************************************************)
(* The state action vectors FSMSA ("None": no state action).               *)
(***************************************************************************)
MonitorIngressSA ==
  [Init |-> "ifsa_start_wdt", RxRq |-> "ifsa_stop_wdt",
   RxWq |-> "ifsa_stop_wdt", RxEf |-> "None"]

MonitorEgressSA == [Init |-> "None"]

ParticipateIngressSA ==
  [Init |-> "ifsa_start_wdt", XmRq |-> "ifsa_stop_wdt", XmWq |-> "ifsa_stop_wdt"]

ParticipateEgressSA ==
  [Init |-> "efsa_start_wdt_ir", WiRp |-> "efsa_stop_wdt_ir",
   WiRpb |-> "efsa_stop_wdt_ir", WiWp |-> "efsa_stop_wdt_ir",
   WiWpb |-> "efsa_stop_wdt_ir", WePq |-> "efsa_start_wdt_er",
   WeXd |-> "efsa_stop_wdt_er"]

FSMSA(m, gress) ==
  CASE m = EMSBUS_MODE_MONITOR ->
         (IF gress = "ingress" THEN MonitorIngressSA ELSE MonitorEgressSA)
    [] m = EMSBUS_MODE_PARTCPT ->
         (IF gress = "ingress" THEN ParticipateIngressSA ELSE ParticipateEgressSA)

\* Bfsm.Stimuli: the stimuli of the matrix (every state has the same ones)
Stimuli(m, gress) == DOMAIN FSMDT(m, gress)["Init"]

(***************************************************************************)
(* Values passed between the threads.  A queue entry holds a frame (a      *)
(* bytearray), a signal (a string of two characters: PQ, RQ, WQ, XD) or    *)
(* None; one record shape is used for all three.                           *)
(***************************************************************************)
Fr(f) == [k |-> "frm", f |-> f, s |-> ""]
Sg(s) == [k |-> "sig", f |-> <<>>, s |-> s]
Nil == [k |-> "none", f |-> <<>>, s |-> ""]

\* len( value ): of a frame, or of a signal string
LenOf(v) == IF v.k = "frm" THEN Len(v.f) ELSE 2

\* the dictionary { 'Frame': ..., 'Time': ..., 'Type': ... } of the ingress
\* path; pair is history (the request whose reply the frame is), not data
IQv(v, type, pair) == [k |-> v.k, f |-> v.f, s |-> v.s, Type |-> type, pair |-> pair]
INone == IQv(Nil, "", "")

\* the dictionary { 'Frame': ..., 'Type': ... } of the egress path
EQv(v, type) == [k |-> v.k, f |-> v.f, s |-> v.s, Type |-> type]

Polrep == EQv(Fr(<<Device>>), "polrep")

(***************************************************************************)
(* The event actions of the ingress FSM, as the effect of one call on      *)
(* self.idisp_frame (fr): the new idisp_frame, the entries put on          *)
(* idisp_queue (up) and on edisp_queue (sig), the stimuli given to         *)
(* AugmentEvent (aug), the protocol errors reported (perr), the counter    *)
(* incremented (bump) and whether the call raises before any effect.       *)
(***************************************************************************)
IEff(raise, frame, up, sig, aug, perr, bump) ==
  [raise |-> raise, frame |-> frame, up |-> up, sig |-> sig, aug |-> aug,
   perr |-> perr, bump |-> bump]

IRaise(fr) == IEff(TRUE, fr, <<>>, <<>>, <<>>, 0, "")

\* fr['Frame'][i] is defined
HasOctet(fr, i) == fr.k = "frm" /\ i < Len(fr.f)

ifsm_forward_frame(fr) == IEff(FALSE, INone, <<fr>>, <<>>, <<>>, 0, "")

ifsm_ignore_frame(fr) == IEff(FALSE, INone, <<>>, <<>>, <<>>, 0, "")

ifsm_do_nothing(fr) == IEff(FALSE, fr, <<>>, <<>>, <<>>, 0, "")

ifsm_report_error(fr) == IEff(FALSE, fr, <<>>, <<>>, <<>>, 1, "")

\* a check that ends the dispatcher when another device uses this address
ifsm_check_polrep_halts(fr) ==
  IF ~HasOctet(fr, 0) THEN IRaise(fr)
  ELSE IF fr.f[1] # Device THEN ifsm_ignore_frame(fr)
  ELSE IRaise(fr)

ifsm_check_polrep(fr) ==
  IF ~HasOctet(fr, 0) THEN IRaise(fr)
  ELSE IF fr.f[1] # Device THEN ifsm_ignore_frame(fr)
  ELSE ifsm_do_nothing(fr)

ifsm_do_rearep(fr) ==
  IF fr.k = "none" THEN IRaise(fr)
  ELSE IEff(FALSE, [fr EXCEPT !.Type = "rearep"], <<>>, <<>>, <<"rearep">>, 0,
            "ingress_rearep_frames")

ifsm_do_wrireq(fr) ==
  IF fr.k = "none" THEN IRaise(fr)
  ELSE IEff(FALSE, [fr EXCEPT !.Type = "wrireq"], <<>>, <<>>, <<"wrireq">>, 0,
            "ingress_wrireq_frames")

ifsm_reppe_and_forf(fr) == IEff(FALSE, INone, <<fr>>, <<>>, <<>>, 1, "")

ifsm_reppe_and_ignf(fr) == IEff(FALSE, INone, <<>>, <<>>, <<>>, 1, "")

ifsm_handle_rearep(fr) ==
  IF ~HasOctet(fr, EMS_Destin) THEN IRaise(fr)
  ELSE IF fr.f[EMS_Destin + 1] # 0 THEN ifsm_reppe_and_forf(fr)
  ELSE ifsm_forward_frame(fr)

ifsm_passon_polreq(fr) ==
  IF ~HasOctet(fr, 0) THEN IRaise(fr)
  ELSE IF fr.f[1] = BitOr(Device, 128)
    THEN IEff(FALSE, INone, <<>>, <<Sg("PQ")>>, <<>>, 0, "")
  ELSE ifsm_ignore_frame(fr)

ifsm_passon_rearep(fr) ==
  IF ~HasOctet(fr, EMS_Destin) THEN IRaise(fr)
  ELSE IF fr.f[EMS_Destin + 1] \in {0, Device} THEN ifsm_forward_frame(fr)
  ELSE ifsm_ignore_frame(fr)

ifsm_passon_reareq(fr) ==
  IF ~HasOctet(fr, EMS_Destin) THEN IRaise(fr)
  ELSE IF fr.f[EMS_Destin + 1] # BitOr(Device, 128) THEN ifsm_ignore_frame(fr)
  ELSE IEff(FALSE, INone, <<fr>>, <<Sg("RQ")>>, <<>>, 0, "")

\* a write request is passed on whatever its destination
ifsm_passon_any(fr) ==
  IF ~HasOctet(fr, EMS_Destin) THEN IRaise(fr)
  ELSE IEff(FALSE, INone, <<fr>>, <<Sg("WQ")>>, <<>>, 0, "")

ifsm_passon_wrireq(fr) ==
  IF ~HasOctet(fr, EMS_Destin) THEN IRaise(fr)
  ELSE IF fr.f[EMS_Destin + 1] # Device THEN ifsm_ignore_frame(fr)
  ELSE IEff(FALSE, INone, <<fr>>, <<Sg("WQ")>>, <<>>, 0, "")

ifsm_repwxd_and_forf(fr) == IEff(FALSE, INone, <<fr>>, <<Sg("XD")>>, <<>>, 0, "")

ifsm_reprxd_and_forf(fr) ==
  IF ~HasOctet(fr, EMS_Destin) THEN IRaise(fr)
  ELSE IF fr.f[EMS_Destin + 1] = Device THEN ifsm_repwxd_and_forf(fr)
  ELSE ifsm_ignore_frame(fr)

IngressAction(a, fr) ==
  CASE a = "ifsm_check_polrep"    -> ifsm_check_polrep(fr)
    [] a = "ifsm_do_nothing"      -> ifsm_do_nothing(fr)
    [] a = "ifsm_do_rearep"       -> ifsm_do_rearep(fr)
    [] a = "ifsm_do_wrireq"       -> ifsm_do_wrireq(fr)
    [] a = "ifsm_forward_frame"   -> ifsm_forward_frame(fr)
    [] a = "ifsm_handle_rearep"   -> ifsm_handle_rearep(fr)
    [] a = "ifsm_ignore_frame"    -> ifsm_ignore_frame(fr)
    [] a = "ifsm_passon_polreq"   -> ifsm_passon_polreq(fr)
    [] a = "ifsm_passon_rearep"   -> ifsm_passon_rearep(fr)
    [] a = "ifsm_passon_reareq"   -> ifsm_passon_reareq(fr)
    [] a = "ifsm_passon_wrireq"   -> ifsm_passon_wrireq(fr)
    [] a = "ifsm_report_error"    -> ifsm_report_error(fr)
    [] a = "ifsm_reppe_and_forf"  -> ifsm_reppe_and_forf(fr)
    [] a = "ifsm_reppe_and_ignf"  -> ifsm_reppe_and_ignf(fr)
    [] a = "ifsm_reprxd_and_forf" -> ifsm_reprxd_and_forf(fr)
    [] a = "ifsm_repwxd_and_forf" -> ifsm_repwxd_and_forf(fr)

(***************************************************************************)
(* The event actions of the egress FSM, as the effect of one call on the   *)
(* egress dispatcher's variables ed (frame: self.edisp_frame, type:        *)
(* self.edisp_type, frame_type: self.edisp_frame_type, "unset" while the   *)
(* attribute does not exist) and on the buffer: the new ed and buffer, the *)
(* entries put on eframe_queue (out), the stimuli given to AugmentEvent,   *)
(* the protocol errors reported, whether the call raises before any effect *)
(* and whether it waits (a get on the empty buffer).                       *)
(***************************************************************************)
EEff(raise, wait, ed, buf, out, aug, perr) ==
  [raise |-> raise, wait |-> wait, ed |-> ed, buf |-> buf, out |-> out,
   aug |-> aug, perr |-> perr]

ENoFrame(ed) == [ed EXCEPT !.frame = Nil]

efsm_do_nothing(ed, buf) == EEff(FALSE, FALSE, ed, buf, <<>>, <<>>, 0)

efsm_buffer_frame(ed, buf) ==
  IF ed.frame_type = "unset" THEN EEff(TRUE, FALSE, ed, buf, <<>>, <<>>, 0)
  ELSE EEff(FALSE, FALSE, ENoFrame(ed),
            Append(buf, EQv(ed.frame, ed.frame_type)), <<>>, <<>>, 0)

efsm_do_rearep(ed, buf) ==
  EEff(FALSE, FALSE, [ed EXCEPT !.frame_type = "rearep"], buf, <<>>,
       <<"rearep">>, 0)

efsm_do_wrireq(ed, buf) ==
  EEff(FALSE, FALSE, [ed EXCEPT !.frame_type = "wrireq"], buf, <<>>,
       <<"wrireq">>, 0)

efsm_forward_frame(ed, buf) ==
  IF ed.frame_type = "unset" THEN EEff(TRUE, FALSE, ed, buf, <<>>, <<>>, 0)
  ELSE EEff(FALSE, FALSE, ENoFrame(ed), buf,
            <<EQv(ed.frame, ed.frame_type)>>, <<>>, 0)

\* a buffer that gives its newest frame first
efsm_forward_newest(ed, buf) ==
  IF Len(buf) = 0 THEN EEff(FALSE, TRUE, ed, buf, <<>>, <<>>, 0)
  ELSE EEff(FALSE, FALSE, ed, SubSeq(buf, 1, Len(buf) - 1), <<buf[Len(buf)]>>,
            <<>>, 0)

efsm_forward_buffer(ed, buf) ==
  IF Len(buf) = 0 THEN EEff(FALSE, TRUE, ed, buf, <<>>, <<>>, 0)
  ELSE EEff(FALSE, FALSE, ed, Tail(buf), <<Head(buf)>>, <<>>, 0)

efsm_ignore_frame(ed, buf) ==
  EEff(FALSE, FALSE, ENoFrame(ed), buf, <<>>, <<>>, 0)

efsm_report_error(ed, buf) == EEff(FALSE, FALSE, ed, buf, <<>>, <<>>, 1)

efsm_reppe_and_ignf(ed, buf) ==
  EEff(FALSE, FALSE, ENoFrame(ed), buf, <<>>, <<>>, 1)

efsm_send_polrep(ed, buf) ==
  EEff(FALSE, FALSE, ed, buf, <<Polrep>>,
       IF Len(buf) = 0 THEN <<"bufemp">> ELSE <<>>, 0)

EgressAction(a, ed, buf) ==
  CASE a = "efsm_buffer_frame"   -> efsm_buffer_frame(ed, buf)
    [] a = "efsm_do_nothing"     -> efsm_do_nothing(ed, buf)
    [] a = "efsm_do_rearep"      -> efsm_do_rearep(ed, buf)
    [] a = "efsm_do_wrireq"      -> efsm_do_wrireq(ed, buf)
    [] a = "efsm_forward_frame"  -> efsm_forward_frame(ed, buf)
    [] a = "efsm_forward_buffer" -> efsm_forward_buffer(ed, buf)
    [] a = "efsm_ignore_frame"   -> efsm_ignore_frame(ed, buf)
    [] a = "efsm_report_error"   -> efsm_report_error(ed, buf)
    [] a = "efsm_reppe_and_ignf" -> efsm_reppe_and_ignf(ed, buf)
    [] a = "efsm_send_polrep"    -> efsm_send_polrep(ed, buf)

(***************************************************************************)
(* The state actions, as the call each makes on the watchdog timer of its  *)
(* FSM: "start", "stop" or "none".  They read the FSM's shared variables   *)
(* NxtState, State and Stimulus; all of them return True.                  *)
(***************************************************************************)
StateActionCall(sa, f) ==
  CASE sa = "ifsa_start_wdt" ->
         IF f.NxtState \in {"RxRq", "XmRq", "RxWq", "XmWq"} THEN "start" ELSE "none"
    [] sa = "ifsa_stop_wdt" -> "stop"
    [] sa = "efsa_start_wdt_er" ->
         IF f.NxtState = "WeXd" THEN "start" ELSE "none"
    [] sa = "efsa_stop_wdt_er" ->
         IF <<f.State, f.Stimulus>> = <<"WePq", "rcvxd">> THEN "stop" ELSE "none"
    [] sa = "efsa_start_wdt_ir" ->
         IF f.NxtState \in {"WiRp", "WiWp"} THEN "start" ELSE "none"
    [] sa = "efsa_stop_wdt_ir" ->
         IF <<f.State, f.Stimulus>> \in
              {<<"WiRp", "rearep">>, <<"WiRpb", "rearep">>,
               <<"WiWp", "wrirep">>, <<"WiWpb", "wrirep">>}
         THEN "stop" ELSE "none"
    [] OTHER -> "none"

(***************************************************************************)
(* The state.  The first group is the state of one Emsbus instance with    *)
(* its four threads and two timer threads; wdt is a WatchdogTimer used on  *)
(* its own by one owner thread; cl is the thread that calls close().       *)
(***************************************************************************)
VARIABLES
  mode,          \* self.mode
  wire,          \* octets on the serial line not yet read, one entry per frame
  eframe,        \* self.eframe: the frame whose echo is expected
  iframe_queue,  \* self.iframe_queue: framer -> ingress dispatcher
  idisp_queue,   \* self.idisp_queue: read by read_frame()
  edisp_queue,   \* self.edisp_queue: user application and signals -> egress
  edisp_buffer,  \* self.edisp_buffer: frames awaiting the poll
  eframe_queue,  \* self.eframe_queue: egress FSM -> writer
  idisp_frame,   \* self.idisp_frame
  edisp,         \* self.edisp_frame, self.edisp_type, self.edisp_frame_type
  fsm,           \* the two Bfsm instances
  tmr,           \* the current Timer object of each FSM's WatchdogTimer
  thr,           \* the threads that run the FSM interpreter
  wr,            \* the writer thread
  alive,         \* the flags reader_alive, writer_alive, idisp_alive, edisp_alive
  sbs,           \* self.sbs, the frame and error counters
  env,           \* what the bus and the user application have done so far
  gh,            \* history of the run, read by the properties only
  wdt,           \* a WatchdogTimer and its owner thread
  cl,            \* the caller of close(), and where the reader thread is
  rdr,           \* the reader thread: the octets of the line and self.iframe
  cs,            \* a call of _calc_checksum: bfr, the index i, and chks
  bf,            \* a Bfsm of its own and the thread that calls HandleEvent
  ct             \* one counter of self.sbs and the threads that update it

pipeVars ==
  <<mode, wire, eframe, iframe_queue, idisp_queue, edisp_queue, edisp_buffer,
    eframe_queue, idisp_frame, edisp, fsm, tmr, thr, wr, alive, sbs, env, gh, cl, rdr, cs, bf, ct>>

vars ==
  <<mode, wire, eframe, iframe_queue, idisp_queue, edisp_queue, edisp_buffer,
    eframe_queue, idisp_frame, edisp, fsm, tmr, thr, wr, alive, sbs, env, gh,
    wdt, cl, rdr, cs, bf, ct>>

(***************************************************************************)
(* threading.Timer, as far as WatchdogTimer uses it.  st is the thread:    *)
(* "new" (never started, the dummy of __init__), "wait" (started, waiting  *)
(* on the finished event), "run" (the function is being called), "dead";   *)
(* fin is the finished event.                                              *)
(***************************************************************************)
DummyTimer == [st |-> "new", fin |-> FALSE]

\* variants of the Timer operations, for sensitivity checks of the properties:
\* a cancel() that leaves the event unset, a join() that returns at once
CancelNothing(t) == t

StopJoinNoWait(t) == TRUE

\* Timer( timeout, handler ) followed by start()
StartedTimer == [st |-> "wait", fin |-> FALSE]

\* Thread.is_alive()
IsAlive(t) == t.st \in {"wait", "run"}

\* Timer.cancel()
Cancel(t) == [t EXCEPT !.fin = TRUE]

\* self.timer.join() of stop returns
StopJoinReturns(t) == t.st = "dead"

\* self.timer.join() of _start returns
StartJoinReturns(t) == t.st = "dead"

\* Timer.run: the wait ends and the event is not set, so the function is called
TimerExpires(t) == t.st = "wait" /\ ~t.fin

\* Timer.run: the wait ends with the event set, the thread ends
TimerSkips(t) == t.st = "wait" /\ t.fin

\* the arming bound of the WatchdogTimer specification
MaxArm == 3

Armings == 1..MaxArm

(***************************************************************************)
(* WatchdogTimer with one owner thread that calls start, reset and stop in *)
(* any order.  wdt.tm[i] is the Timer object of the i-th arming, wdt.cur   *)
(* the one self.timer refers to (0: the dummy).  History: inv[i] counts    *)
(* the handler invocations of arming i, cbe[i] tells that cancel() was     *)
(* called while the timer was waiting, stopped holds the timers a          *)
(* returned stop() found in self.timer, and ret is the last return value   *)
(* of stop() with the state of the timer at the call.                      *)
(***************************************************************************)
WdtInit ==
  wdt = [ timeout |-> FALSE, cur |-> 0, n |-> 0,
          tm |-> [i \in Armings |-> DummyTimer],
          pc |-> "idle", op |-> "",
          inv |-> [i \in Armings |-> 0],
          cbe |-> [i \in Armings |-> FALSE],
          stopped |-> {},
          ret |-> [called |-> FALSE, value |-> FALSE, at |-> "none", tmr |-> 0] ]

WdtTimer == IF wdt.cur = 0 THEN DummyTimer ELSE wdt.tm[wdt.cur]

\* start( timeout, Handler ) with a timeout: saves the parameters, enters _start
WdtCallStart ==
  /\ wdt.pc = "idle" /\ wdt.n < MaxArm
  /\ wdt' = [wdt EXCEPT !.timeout = TRUE, !.pc = "chk", !.op = "start"]
  /\ UNCHANGED pipeVars

\* reset() with a timer defined enters _start (without one it returns False
\* and changes nothing)
WdtCallReset ==
  /\ wdt.pc = "idle" /\ wdt.n < MaxArm
  /\ wdt.timeout
  /\ wdt' = [wdt EXCEPT !.pc = "chk", !.op = "reset"]
  /\ UNCHANGED pipeVars

\* stop() is called
WdtCallStop ==
  /\ wdt.pc = "idle"
  /\ wdt' = [wdt EXCEPT !.pc = "chk", !.op = "stop",
               !.ret = [called |-> FALSE, value |-> FALSE,
                        at |-> IF wdt.cur = 0 THEN "none" ELSE WdtTimer.st,
                        tmr |-> wdt.cur]]
  /\ UNCHANGED pipeVars

\* if self.timer.is_alive(): of _start and of stop; stop returns False here
WdtIsAlive ==
  /\ wdt.pc = "chk"
  /\ wdt' = IF IsAlive(WdtTimer) THEN [wdt EXCEPT !.pc = "cancel"]
            ELSE IF wdt.op = "stop"
              THEN [wdt EXCEPT !.pc = "idle", !.ret.called = TRUE,
                               !.ret.value = FALSE,
                               !.stopped = @ \cup ({wdt.cur} \ {0})]
            ELSE [wdt EXCEPT !.pc = "new"]
  /\ UNCHANGED pipeVars

\* self.timer.cancel()
WdtCancel ==
  /\ wdt.pc = "cancel"
  /\ wdt' = [wdt EXCEPT !.pc = "join",
               !.tm[wdt.cur] = Cancel(@),
               !.cbe[wdt.cur] = @ \/ TimerExpires(WdtTimer)]
  /\ UNCHANGED pipeVars

\* self.timer.join() returns; stop returns True
WdtJoin ==
  /\ wdt.pc = "join"
  /\ IF wdt.op = "stop" THEN StopJoinReturns(WdtTimer) ELSE StartJoinReturns(WdtTimer)
  /\ wdt' = IF wdt.op = "stop"
              THEN [wdt EXCEPT !.pc = "idle", !.ret.called = TRUE,
                               !.ret.value = TRUE, !.stopped = @ \cup {wdt.cur}]
            ELSE [wdt EXCEPT !.pc = "new"]
  /\ UNCHANGED pipeVars

\* self.timer= Timer( self.timeout, self.handler ); self.timer.start()
WdtNewTimer ==
  /\ wdt.pc = "new"
  /\ wdt' = [wdt EXCEPT !.pc = "idle", !.n = @ + 1, !.cur = wdt.n + 1,
               !.tm[wdt.n + 1] = StartedTimer]
  /\ UNCHANGED pipeVars

\* the timer thread of arming i calls the handler
WdtExpire(i) ==
  /\ TimerExpires(wdt.tm[i])
  /\ wdt' = [wdt EXCEPT !.tm[i].st = "run", !.inv[i] = @ + 1]
  /\ UNCHANGED pipeVars

\* the timer thread of arming i finds the event set and ends
WdtSkip(i) ==
  /\ TimerSkips(wdt.tm[i])
  /\ wdt' = [wdt EXCEPT !.tm[i].st = "dead"]
  /\ UNCHANGED pipeVars

\* the handler returns: finished.set(), the thread ends
WdtHandlerReturns(i) ==
  /\ wdt.tm[i].st = "run"
  /\ wdt' = [wdt EXCEPT !.tm[i] = [st |-> "dead", fin |-> TRUE]]
  /\ UNCHANGED pipeVars

\* the handler calls stop() or start() of its own WatchdogTimer: the timer is
\* alive, is cancelled, and join() of the current thread raises RuntimeError
WdtHandlerCallsBack(i) ==
  /\ wdt.tm[i].st = "run" /\ i = wdt.cur
  /\ wdt' = [wdt EXCEPT !.tm[i] = [st |-> "dead", fin |-> TRUE]]
  /\ UNCHANGED pipeVars

WdtNext ==
  \/ WdtCallStart \/ WdtCallReset \/ WdtCallStop
  \/ WdtIsAlive \/ WdtCancel \/ WdtJoin \/ WdtNewTimer
  \/ \E i \in Armings :
       WdtExpire(i) \/ WdtSkip(i) \/ WdtHandlerReturns(i) \/ WdtHandlerCallsBack(i)

(***************************************************************************)
(* The Emsbus instance after open(): mode is MONITOR or PARTCPT (the       *)
(* constructor has no matrix for the mixed mode), the queues are empty,    *)
(* both FSMs are in Init and the four threads wait for input.              *)
(***************************************************************************)
Gresses == {"ingress", "egress"}

\* the threads that run a Bfsm interpreter: the two dispatchers and the timer
\* thread of either WatchdogTimer (which runs the timeout handler)
Interpreters == {"idisp", "edisp", "itimer", "etimer"}

GressOf(t) == IF t \in {"idisp", "itimer"} THEN "ingress" ELSE "egress"

IsTimerThread(t) == t \in {"itimer", "etimer"}

Counters ==
  { "bus_address_conflict", "ingress_total_frames", "ingress_echo_frames",
    "ingress_empty_frames", "ingress_short_frames", "ingress_errors",
    "ingress_err_frames", "ingress_err_timeout", "ingress_err_protocol",
    "ingress_emsplus_frames", "ingress_polreq_frames", "ingress_polrep_frames",
    "ingress_reareq_frames", "ingress_rearep_frames", "ingress_wrireq_frames",
    "ingress_wrirep_frames", "egress_total_frames", "egress_polrep_frames",
    "egress_reareq_frames", "egress_rearep_frames", "egress_wrireq_frames",
    "egress_wrirep_frames", "egress_err_short_frames", "egress_err_long_frames",
    "egress_err_timeout", "egress_err_protocol" }

\* self.sbs[name]+= 1 for every name of the sequence names
Bump(c, names) ==
  [k \in DOMAIN c |-> c[k] + Cardinality({i \in DOMAIN names : names[i] = k})]

BfsmInit ==
  [State |-> "Init", PrvState |-> "None", NxtState |-> "None",
   Stimulus |-> "None", DefQueue |-> <<>>, PriQueue |-> <<>>]

ThreadInit(t) ==
  [pc |-> IF IsTimerThread(t) THEN "idle" ELSE "get",
   Stim |-> "", NewState |-> "", Action |-> "", sa |-> "None", call |-> "none"]

\* rec: the entry the writer took last; sent: the octets it wrote last;
\* sentAt: the value of ingress_echo_frames when it wrote them
GhostInit ==
  [pending |-> "", polrepOpen |-> FALSE, cause |-> "",
   rec |-> EQv(Nil, ""), sent |-> NoFrame, sentAt |-> 0]

\* the reader thread at its start: self.iframe is empty; all are the octets
\* the line will deliver (payload, escaped by the line discipline or as they
\* are), pos tells how many of them have been read; handed and split are
\* history: the raw frames given to _handle_iframe, and whether two reads
\* have divided an occurrence of the octets ff 00 00
ReaderStart(payload, esc) ==
  [payload |-> payload, esc |-> esc,
   all |-> IF esc THEN Escape(payload) ELSE payload,
   pos |-> 0, iframe |-> <<>>, handed |-> <<>>, split |-> FALSE]

\* the attributes that __init__ presets, and the history variables
Attributes ==
  /\ wire = <<>>
  /\ eframe = NoFrame
  /\ iframe_queue = <<>>
  /\ idisp_queue = <<>>
  /\ edisp_queue = <<>>
  /\ edisp_buffer = <<>>
  /\ eframe_queue = <<>>
  /\ idisp_frame = INone
  /\ edisp = [frame |-> Fr(<<>>), type |-> "None", frame_type |-> "unset"]
  /\ fsm = [g \in Gresses |-> BfsmInit]
  /\ tmr = [g \in Gresses |-> DummyTimer]
  /\ thr = [t \in Interpreters |-> ThreadInit(t)]
  /\ wr = [pc |-> "get", qv |-> EQv(Nil, "")]
  /\ alive = [t \in {"reader", "writer", "idisp", "edisp"} |-> TRUE]
  /\ sbs = [k \in Counters |-> 0]
  /\ env = [bus |-> 0, up |-> 0]
  /\ gh = GhostInit

\* an instance in one of the two modes that have state machines, opened
InstanceInit ==
  /\ mode \in {EMSBUS_MODE_MONITOR, EMSBUS_MODE_PARTCPT}
  /\ Attributes
  /\ cl = [pc |-> "open", k |-> 1, rd |-> "read"]

\* a call of _calc_checksum( bfr ) before the first iteration of its loop
ChecksumStart(bfr) == [bfr |-> bfr, i |-> 0, chks |-> <<>>]

\* a Bfsm after its constructor; no call of HandleEvent is going on
\* sbs[ 'egress_total_frames' ] and the threads that use it, none of them
\* at work: the value, what the egress dispatcher and the writer have loaded,
\* what they have taken from their queues, the last two snapshots
CountIdle ==
  [sbs |-> 0, ed |-> [pc |-> "get", val |-> 0], tx |-> [pc |-> "get", val |-> 0],
   rejected |-> 0, dequeued |-> 0, snap |-> 0, prev |-> 0]

BfsmIdle ==
  [fsm |-> BfsmInit, pc |-> "idle", Stim |-> "", NewState |-> "",
   Action |-> "", n |-> 0]

PipeInit ==
  /\ InstanceInit /\ rdr = ReaderStart(<<>>, FALSE)
  /\ cs = ChecksumStart(<<>>) /\ bf = BfsmIdle /\ ct = CountIdle

Init == PipeInit /\ WdtInit

InitWdt == Init /\ mode = EMSBUS_MODE_PARTCPT

SpecWdt == InitWdt /\ [][WdtNext]_vars

(***************************************************************************)
(* C7: once stop() has returned, the thread of the timer it found in       *)
(* self.timer has ended: its handler is not running and, a thread that has *)
(* ended never being started again, does not start later.                  *)
(***************************************************************************)
C7_StopIsSynchronous == \A i \in wdt.stopped : wdt.tm[i].st = "dead"

\* stop() raced with the expiry: it returned True for a timer whose handler
\* had been called
C7_Witness ==
  /\ wdt.ret.called /\ wdt.ret.value /\ wdt.pc = "idle"
  /\ wdt.ret.tmr \in wdt.stopped
  /\ wdt.inv[wdt.ret.tmr] = 1

(***************************************************************************)
(* C8: no arming has its handler called twice; an arming whose thread has  *)
(* ended without cancel() having been called while it waited has had its   *)
(* handler called exactly once; an arming cancelled while it waited has    *)
(* had no call; and at most one timer thread is alive at any time.         *)
(***************************************************************************)
C8_OneInvocationPerArming ==
  /\ \A i \in Armings : wdt.inv[i] <= 1
  /\ \A i \in Armings :
       (wdt.tm[i].st = "dead" /\ ~wdt.cbe[i]) => wdt.inv[i] = 1
  /\ \A i \in Armings : wdt.cbe[i] => wdt.inv[i] = 0
  /\ Cardinality({i \in Armings : IsAlive(wdt.tm[i])}) <= 1

\* one arming expired and ran its handler, another was cancelled by a later
\* call before it expired and has ended
C8_Witness ==
  \E i, j \in Armings :
    /\ wdt.inv[i] = 1 /\ wdt.tm[i].st = "dead" /\ ~wdt.cbe[i]
    /\ wdt.cbe[j] /\ wdt.tm[j].st = "dead" /\ wdt.inv[j] = 0

(***************************************************************************)
(* C9: a returned stop() has returned True exactly when the timer was      *)
(* waiting at the call and its handler has not been called.                *)
(***************************************************************************)
C9_StopReturnValue ==
  wdt.ret.called =>
    (wdt.ret.value <=> (wdt.ret.at = "wait" /\ wdt.inv[wdt.ret.tmr] = 0))

(***************************************************************************)
(* The serial line and the user application.  A frame another device sends *)
(* arrives as its octets and check-sum, a 0xff doubled by the line         *)
(* discipline; wire holds one entry per break.  History kept with an       *)
(* entry: src tells who sent it, pair the request of this device it is the *)
(* first frame after.                                                      *)
(***************************************************************************)
OnWire(frame) ==
  Escape(IF Len(frame) >= EMSBUS_Min_frame_size
         THEN Append(frame, CalcChecksum(Append(frame, 0)))
         ELSE frame)

\* the frames other devices send: a poll of this device, a write reply, a
\* read request to this device
BusFrames ==
  { <<BitOr(Device, 128)>>, <<1>>, <<8, BitOr(Device, 128), 24, 0, 1>> }

\* the frames the user application writes: a broadcast, a frame addressed to
\* device 16 (a write request, or the reply to a read request)
UpFrames == { <<Device, 0, 24, 0, 1>>, <<Device, 16, 24, 0, 1>> }

\* bounds on what the bus and the user application do in one run
MaxBus == 2

MaxUp == 1

\* the bound on the user application when no watchdog expires
MaxUpPrompt == 2

\* a read request to this device followed by two polls of it
RaceBus ==
  << <<8, BitOr(Device, 128), 24, 0, 1>>, <<BitOr(Device, 128)>>,
     <<BitOr(Device, 128)>> >>

\* octets of a frame of another device arrive, followed by a break; max is
\* the number of frames the bus carries in one run
BusFrame(f, max) ==
  /\ env.bus < max
  /\ env' = [env EXCEPT !.bus = @ + 1]
  /\ wire' = Append(wire, [f |-> OnWire(f), src |-> "bus", pair |-> gh.pending])
  /\ gh' = [gh EXCEPT !.pending = ""]
  /\ UNCHANGED <<mode, eframe, iframe_queue, idisp_queue, edisp_queue,
                 edisp_buffer, eframe_queue, idisp_frame, edisp, fsm, tmr, thr,
                 wr, alive, sbs, wdt, cl, rdr, cs, bf, ct>>

\* the user application hands a frame to the egress dispatcher
UpWrite(f, max) ==
  /\ env.up < max
  /\ env' = [env EXCEPT !.up = @ + 1]
  /\ edisp_queue' = Append(edisp_queue, Fr(f))
  /\ UNCHANGED <<mode, wire, eframe, iframe_queue, idisp_queue, edisp_buffer,
                 eframe_queue, idisp_frame, edisp, fsm, tmr, thr, wr, alive,
                 sbs, gh, wdt, cl, rdr, cs, bf, ct>>

\* read_frame(): the user application takes the next entry of idisp_queue
ReadFrame ==
  /\ idisp_queue # <<>>
  /\ idisp_queue' = Tail(idisp_queue)
  /\ UNCHANGED <<mode, wire, eframe, iframe_queue, edisp_queue, edisp_buffer,
                 eframe_queue, idisp_frame, edisp, fsm, tmr, thr, wr, alive,
                 sbs, env, gh, wdt, cl, rdr, cs, bf, ct>>

(***************************************************************************)
(* The reader thread: a break is found in the octets read, the frame       *)
(* before it is handled by _handle_iframe.                                 *)
(***************************************************************************)
FramerCounters(r) ==
  CASE r.kind = "echo"   -> <<"ingress_echo_frames">>
    [] r.kind = "erred"  -> <<"ingress_total_frames", "ingress_err_frames">>
                            \o [i \in 1..r.err |-> "ingress_errors"]
    [] r.kind = "empty"  -> <<"ingress_total_frames", "ingress_empty_frames">>
    [] r.kind = "single" -> <<"ingress_total_frames">>
    [] r.kind = "short"  -> <<"ingress_total_frames", "ingress_short_frames">>
    [] r.kind = "normal" -> <<"ingress_total_frames">>
                            \o (IF r.plus THEN <<"ingress_emsplus_frames">> ELSE <<>>)
    [] r.kind = "badsum" -> <<"ingress_total_frames", "ingress_err_frames">>

Reader ==
  /\ cl.rd = "read" /\ alive["reader"]
  /\ wire # <<>>
  /\ LET w == Head(wire)
         r == HandleIframe(w.f, eframe)
     IN  /\ wire' = Tail(wire)
         /\ eframe' = r.eframe
         /\ iframe_queue' = iframe_queue \o
              [i \in 1..Len(r.out) |-> [f |-> r.out[i], src |-> w.src, pair |-> w.pair]]
         /\ sbs' = Bump(sbs, FramerCounters(r))
  /\ UNCHANGED <<mode, idisp_queue, edisp_queue, edisp_buffer, eframe_queue,
                 idisp_frame, edisp, fsm, tmr, thr, wr, alive, env, gh, wdt, cl, rdr, cs, bf, ct>>

(***************************************************************************)
(* The dispatchers: take the next entry of the input queue, determine its  *)
(* type and enter HandleEvent, whose ReportEvent puts the type on the      *)
(* default queue of the FSM (an unknown stimulus fails the assertion).     *)
(***************************************************************************)
\* `while self.idisp_alive:' and its like: a thread that comes back to the
\* head of its loop waits for the next entry, or ends when its flag is down
LoopTop(t) == IF alive[t] THEN "get" ELSE "exit"

\* a dispatcher that counts a frame of undecided kind as a read reply before
\* the FSM has decided
IngressCountersEarly(frame, type) ==
  CASE type = "polreq" -> <<"ingress_polreq_frames">>
    [] type = "wrirep" -> <<"ingress_wrirep_frames">>
    [] type = "polrep" -> <<"ingress_polrep_frames">>
    [] type = "rearep" -> <<"ingress_rearep_frames">>
    [] type = "reareq" -> <<"ingress_reareq_frames">>
    [] type = "rporwq" -> <<"ingress_rearep_frames">>
    [] OTHER -> <<>>

IngressCounters(frame, type) ==
  CASE type = "polreq" -> <<"ingress_polreq_frames">>
    [] type = "wrirep" -> <<"ingress_wrirep_frames">>
    [] type = "polrep" ->
         <<"ingress_polrep_frames">> \o
         (IF mode # EMSBUS_MODE_MONITOR /\ frame[1] = Device
          THEN <<"bus_address_conflict">> ELSE <<>>)
    [] type = "rearep" -> <<"ingress_rearep_frames">>
    [] type = "reareq" -> <<"ingress_reareq_frames">>
    [] OTHER -> <<>>

IngressDispatcher ==
  /\ thr["idisp"].pc = "get"
  /\ iframe_queue # <<>>
  /\ LET qv == Head(iframe_queue)
         type == IngressType(qv.f)
     IN  /\ iframe_queue' = Tail(iframe_queue)
         /\ IF type = "raise"
            THEN /\ thr' = [thr EXCEPT !["idisp"].pc = "dead"]
                 /\ UNCHANGED <<idisp_frame, fsm, sbs>>
            ELSE /\ idisp_frame' = IQv(Fr(qv.f), type, qv.pair)
                 /\ sbs' = Bump(sbs, IngressCounters(qv.f, type))
                 /\ IF type \in Stimuli(mode, "ingress")
                    THEN /\ fsm' = [fsm EXCEPT !["ingress"].DefQueue = Append(@, type)]
                         /\ thr' = [thr EXCEPT !["idisp"].pc = "fetch"]
                    ELSE /\ thr' = [thr EXCEPT !["idisp"].pc = "dead"]
                         /\ UNCHANGED fsm
  /\ UNCHANGED <<mode, wire, eframe, idisp_queue, edisp_queue, edisp_buffer,
                 eframe_queue, edisp, tmr, wr, alive, env, gh, wdt, cl, rdr, cs, bf, ct>>

\* the type of an entry of edisp_queue: a signal gives 'rcv' + its lower case
EgressTypeOf(v) ==
  IF v.k = "none" THEN "raise"
  ELSE IF v.k = "sig" THEN
    (CASE v.s = "PQ" -> "rcvpq" [] v.s = "RQ" -> "rcvrq"
       [] v.s = "WQ" -> "rcvwq" [] v.s = "XD" -> "rcvxd")
  ELSE EgressType(v.f)

EgressCounters(v) ==
  IF v.k # "frm" \/ Len(v.f) \in {1, 2} THEN <<>>
  ELSE IF Len(v.f) < EMSBUS_Min_frame_size
    THEN <<"egress_total_frames", "egress_err_short_frames">>
  ELSE IF Len(v.f) > EMSBUS_Max_frame_size
    THEN <<"egress_total_frames", "egress_err_long_frames">>
  ELSE <<>>

EgressDispatcher ==
  /\ thr["edisp"].pc = "get"
  /\ edisp_queue # <<>>
  /\ LET v == Head(edisp_queue)
         type == EgressTypeOf(v)
     IN  /\ edisp_queue' = Tail(edisp_queue)
         /\ sbs' = Bump(sbs, EgressCounters(v))
         /\ IF type = "raise"
            THEN /\ thr' = [thr EXCEPT !["edisp"].pc = "dead"]
                 /\ UNCHANGED <<edisp, fsm, gh>>
            ELSE IF type = "none"
            THEN /\ thr' = [thr EXCEPT !["edisp"].pc = LoopTop("edisp")]
                 /\ UNCHANGED <<edisp, fsm, gh>>
            ELSE /\ edisp' = [edisp EXCEPT !.frame = v, !.type = type]
                 /\ fsm' = [fsm EXCEPT !["egress"].DefQueue = Append(@, type)]
                 /\ thr' = [thr EXCEPT !["edisp"].pc = "fetch"]
                 /\ UNCHANGED gh
  /\ UNCHANGED <<mode, wire, eframe, iframe_queue, idisp_queue, edisp_buffer,
                 eframe_queue, idisp_frame, tmr, wr, alive, env, wdt, cl, rdr, cs, bf, ct>>

(***************************************************************************)
(* Bfsm._Interpret, one iteration of its loop in three steps of the thread *)
(* that runs it: fetch the stimulus and look up the matrix; run the state  *)
(* action of the current state (which may wait in the join of the          *)
(* WatchdogTimer); run the event action and change the state.              *)
(***************************************************************************)
\* the variables of a thread outside an iteration of the interpreter
ThreadAt(pc) ==
  [pc |-> pc, Stim |-> "", NewState |-> "", Action |-> "", sa |-> "None",
   call |-> "none"]

\* the thread ends: by an exception, or because the handler has returned
ThreadEnds(t) == ThreadAt(IF IsTimerThread(t) THEN "idle" ELSE "dead")

DeadTimer == [st |-> "dead", fin |-> TRUE]

Fetch(t) ==
  LET g == GressOf(t)
      f == fsm[g]
      pri == f.PriQueue # <<>>
      Stim == IF pri THEN Head(f.PriQueue) ELSE Head(f.DefQueue)
      entry == FSMDT(mode, g)[f.State][Stim]
      sa == FSMSA(mode, g)[f.State]
  IN  /\ thr[t].pc = "fetch"
      /\ IF f.PriQueue = <<>> /\ f.DefQueue = <<>>
         THEN /\ thr' = [thr EXCEPT ![t] =
                   ThreadAt(IF IsTimerThread(t) THEN "idle" ELSE LoopTop(t))]
              /\ tmr' = IF IsTimerThread(t) THEN [tmr EXCEPT ![g] = DeadTimer] ELSE tmr
              /\ UNCHANGED fsm
         ELSE /\ fsm' = [fsm EXCEPT
                   ![g].PriQueue = IF pri THEN Tail(@) ELSE @,
                   ![g].DefQueue = IF pri THEN @ ELSE Tail(@),
                   ![g].Stimulus = Stim,
                   ![g].NxtState = IF sa # "None" THEN entry[1] ELSE @]
              /\ thr' = [thr EXCEPT ![t] =
                   [pc |-> IF sa # "None" THEN "staact" ELSE "action",
                    Stim |-> Stim, NewState |-> entry[1], Action |-> entry[2],
                    sa |-> sa, call |-> "none"]]
              /\ UNCHANGED tmr
      /\ gh' = IF g = "egress" /\ ~pri /\ f.DefQueue # <<>>
               THEN [gh EXCEPT !.cause = Stim,
                               !.polrepOpen = IF Stim = "rcvpq" THEN FALSE ELSE @]
               ELSE gh
      /\ UNCHANGED <<mode, wire, eframe, iframe_queue, idisp_queue, edisp_queue,
                     edisp_buffer, eframe_queue, idisp_frame, edisp, wr, alive,
                     sbs, env, wdt, cl, rdr, cs, bf, ct>>

\* the state action: WatchdogTimer.start or stop up to the join.  Called by
\* the timer thread itself the timer is alive, and join raises RuntimeError.
StateAction(t) ==
  LET g == GressOf(t)
      call == StateActionCall(thr[t].sa, fsm[g])
  IN  /\ thr[t].pc = "staact"
      /\ IF call = "none"
         THEN /\ thr' = [thr EXCEPT ![t].pc = "action"]
              /\ UNCHANGED tmr
         ELSE IF IsAlive(tmr[g])
         THEN IF IsTimerThread(t)
              THEN /\ thr' = [thr EXCEPT ![t] = ThreadEnds(t)]
                   /\ tmr' = [tmr EXCEPT ![g] = DeadTimer]
              ELSE /\ thr' = [thr EXCEPT ![t].pc = "join", ![t].call = call]
                   /\ tmr' = [tmr EXCEPT ![g] = Cancel(@)]
         ELSE /\ thr' = [thr EXCEPT ![t].pc = "action"]
              /\ tmr' = IF call = "start" THEN [tmr EXCEPT ![g] = StartedTimer] ELSE tmr
      /\ UNCHANGED <<mode, wire, eframe, iframe_queue, idisp_queue, edisp_queue,
                     edisp_buffer, eframe_queue, idisp_frame, edisp, fsm, wr,
                     alive, sbs, env, gh, wdt, cl, rdr, cs, bf, ct>>

\* the join of the state action returns; start then arms the new timer
Join(t) ==
  LET g == GressOf(t)
  IN  /\ thr[t].pc = "join"
      /\ IF thr[t].call = "stop" THEN StopJoinReturns(tmr[g])
                                 ELSE StartJoinReturns(tmr[g])
      /\ thr' = [thr EXCEPT ![t].pc = "action"]
      /\ tmr' = IF thr[t].call = "start" THEN [tmr EXCEPT ![g] = StartedTimer] ELSE tmr
      /\ UNCHANGED <<mode, wire, eframe, iframe_queue, idisp_queue, edisp_queue,
                     edisp_buffer, eframe_queue, idisp_frame, edisp, fsm, wr,
                     alive, sbs, env, gh, wdt, cl, rdr, cs, bf, ct>>

\* PrvState, State, NxtState after the event action; its AugmentEvent calls
Transition(f, NewState, aug) ==
  [f EXCEPT !.PrvState = f.State, !.State = NewState, !.NxtState = "None",
            !.PriQueue = @ \o aug]

IngressEventAction(t) ==
  LET e == IngressAction(thr[t].Action, idisp_frame)
  IN  /\ thr[t].pc = "action" /\ GressOf(t) = "ingress"
      /\ IF e.raise
         THEN /\ thr' = [thr EXCEPT ![t] = ThreadEnds(t)]
              /\ tmr' = IF IsTimerThread(t) THEN [tmr EXCEPT !["ingress"] = DeadTimer] ELSE tmr
              /\ UNCHANGED <<idisp_frame, idisp_queue, edisp_queue, fsm, sbs>>
         ELSE /\ thr' = [thr EXCEPT ![t] = ThreadAt("fetch")]
              /\ idisp_frame' = e.frame
              /\ idisp_queue' = idisp_queue \o e.up
              /\ edisp_queue' = edisp_queue \o e.sig
              /\ fsm' = [fsm EXCEPT !["ingress"] = Transition(@, thr[t].NewState, e.aug)]
              /\ sbs' = Bump(sbs, [i \in 1..e.perr |-> "ingress_err_protocol"]
                                  \o (IF e.bump = "" THEN <<>> ELSE <<e.bump>>))
              /\ UNCHANGED tmr
      /\ UNCHANGED <<mode, wire, eframe, iframe_queue, edisp_buffer,
                     eframe_queue, edisp, wr, alive, env, gh, wdt, cl, rdr, cs, bf, ct>>

EgressEventAction(t) ==
  LET e == EgressAction(thr[t].Action, edisp, edisp_buffer)
  IN  /\ thr[t].pc = "action" /\ GressOf(t) = "egress"
      /\ ~e.wait
      /\ IF e.raise
         THEN /\ thr' = [thr EXCEPT ![t] = ThreadEnds(t)]
              /\ tmr' = IF IsTimerThread(t) THEN [tmr EXCEPT !["egress"] = DeadTimer] ELSE tmr
              /\ UNCHANGED <<edisp, edisp_buffer, eframe_queue, fsm, sbs, gh>>
         ELSE /\ thr' = [thr EXCEPT ![t] = ThreadAt("fetch")]
              /\ edisp' = e.ed
              /\ edisp_buffer' = e.buf
              /\ eframe_queue' = eframe_queue \o e.out
              /\ fsm' = [fsm EXCEPT !["egress"] = Transition(@, thr[t].NewState, e.aug)]
              /\ sbs' = Bump(sbs, [i \in 1..e.perr |-> "egress_err_protocol"])
              /\ gh' = [gh EXCEPT !.polrepOpen = @ \/ e.out = <<Polrep>>]
              /\ UNCHANGED tmr
      /\ UNCHANGED <<mode, wire, eframe, iframe_queue, idisp_queue, edisp_queue,
                     idisp_frame, wr, alive, env, wdt, cl, rdr, cs, bf, ct>>

(***************************************************************************)
(* The timer thread of a WatchdogTimer: at expiry it calls the timeout     *)
(* handler, which counts the time-out and enters HandleEvent( 'timout' );  *)
(* a cancelled timer ends without a call.                                  *)
(***************************************************************************)
TimerThreadOf(g) == IF g = "ingress" THEN "itimer" ELSE "etimer"

HandleTimeout(g) ==
  /\ TimerExpires(tmr[g])
  /\ tmr' = [tmr EXCEPT ![g].st = "run"]
  /\ sbs' = Bump(sbs, <<IF g = "ingress" THEN "ingress_err_timeout"
                                         ELSE "egress_err_timeout">>)
  /\ fsm' = [fsm EXCEPT ![g].DefQueue = Append(@, "timout")]
  /\ thr' = [thr EXCEPT ![TimerThreadOf(g)] = ThreadAt("fetch")]
  /\ UNCHANGED <<mode, wire, eframe, iframe_queue, idisp_queue, edisp_queue,
                 edisp_buffer, eframe_queue, idisp_frame, edisp, wr, alive,
                 env, gh, wdt, cl, rdr, cs, bf, ct>>

TimerCancelled(g) ==
  /\ TimerSkips(tmr[g])
  /\ tmr' = [tmr EXCEPT ![g].st = "dead"]
  /\ UNCHANGED <<mode, wire, eframe, iframe_queue, idisp_queue, edisp_queue,
                 edisp_buffer, eframe_queue, idisp_frame, edisp, fsm, thr, wr,
                 alive, sbs, env, gh, wdt, cl, rdr, cs, bf, ct>>

(***************************************************************************)
(* The writer thread, one iteration of its loop in two steps: take the     *)
(* next entry of eframe_queue, count it, append the check-sum and signal a *)
(* request; transmit the octets and the break, and signal the end of a     *)
(* broadcast.  What is transmitted is read back from the line.  The octets *)
(* transmitted are those of self.eframe at that time: when the reader has  *)
(* taken the frame for an echo in between, self.eframe is None and the     *)
(* thread ends with a TypeError.                                           *)
(***************************************************************************)
EgressKinds == {"polrep", "reareq", "rearep", "wrireq", "wrirep"}

\* self.eframe when the entry holds a signal, a string no frame is equal to
NotAFrame == SomeFrame(<<-1>>)

WriterGet ==
  /\ wr.pc = "get"
  /\ eframe_queue # <<>>
  /\ LET qv == Head(eframe_queue)
         long == qv.k = "frm" /\ Len(qv.f) >= EMSBUS_Min_frame_size
         sum == Append(qv.f, CalcChecksum(Append(qv.f, 0)))
         known == qv.k # "none" /\ qv.Type \in EgressKinds
     IN  /\ eframe_queue' = Tail(eframe_queue)
         /\ eframe' = IF qv.k = "none" THEN eframe
                       ELSE IF qv.k = "sig" THEN NotAFrame
                       ELSE IF long /\ known THEN SomeFrame(sum)
                       ELSE SomeFrame(qv.f)
         /\ sbs' = IF qv.k = "none" THEN sbs
                    ELSE Bump(sbs, <<"egress_total_frames">> \o
                           (IF known THEN <<"egress_" \o qv.Type \o "_frames">>
                            ELSE <<>>))
         /\ wr' = IF known
                   THEN [pc |-> "xmit", qv |-> [qv EXCEPT !.f = IF long THEN sum ELSE @]]
                   ELSE [pc |-> "dead", qv |-> qv]
         /\ idisp_queue' =
              IF known /\ qv.Type = "reareq"
                THEN Append(idisp_queue, IQv(Sg("RQ"), "", ""))
              ELSE IF known /\ qv.Type = "wrireq"
                THEN Append(idisp_queue, IQv(Sg("WQ"), "", ""))
              ELSE idisp_queue
         /\ gh' = [gh EXCEPT !.rec = qv]
  /\ UNCHANGED <<mode, wire, iframe_queue, edisp_queue, edisp_buffer,
                 idisp_frame, edisp, fsm, tmr, thr, alive, env, wdt, cl, rdr, cs, bf, ct>>

WriterTransmit ==
  /\ wr.pc = "xmit"
  /\ IF wr.qv.k # "frm" \/ ~eframe.set
     THEN /\ wr' = [wr EXCEPT !.pc = "dead"]
          /\ UNCHANGED <<wire, edisp_queue, gh>>
     ELSE /\ wire' = Append(wire, [f |-> Escape(eframe.f), src |-> "echo", pair |-> ""])
          /\ gh' = [gh EXCEPT !.pending =
                      IF wr.qv.Type = "reareq" THEN "RQ"
                      ELSE IF wr.qv.Type = "wrireq" THEN "WQ" ELSE @,
                    !.sent = SomeFrame(eframe.f),
                    !.sentAt = sbs["ingress_echo_frames"]]
          /\ IF wr.qv.Type # "rearep"
             THEN /\ wr' = [wr EXCEPT !.pc = LoopTop("writer")]
                  /\ UNCHANGED edisp_queue
             ELSE IF Len(wr.qv.f) <= EMS_Destin
             THEN /\ wr' = [wr EXCEPT !.pc = "dead"]
                  /\ UNCHANGED edisp_queue
             ELSE /\ wr' = [wr EXCEPT !.pc = LoopTop("writer")]
                  /\ edisp_queue' = IF wr.qv.f[EMS_Destin + 1] = 0
                                    THEN Append(edisp_queue, Sg("XD"))
                                    ELSE edisp_queue
  /\ UNCHANGED <<mode, eframe, iframe_queue, idisp_queue, edisp_buffer,
                 eframe_queue, idisp_frame, edisp, fsm, tmr, thr, alive, sbs,
                 env, wdt, cl, rdr, cs, bf, ct>>

(***************************************************************************)
(* The Emsbus instance at work: the bus, the user application and the six  *)
(* threads interleave freely.                                              *)
(***************************************************************************)
(***************************************************************************)
(* close(): the serial port is closed, then _stop_threads takes the four   *)
(* threads in the order of StopOrder: flag down, and when the thread is    *)
(* alive its sentinel (for the reader: cancel_read) and the join.          *)
(***************************************************************************)
StopOrder == <<"edisp", "writer", "reader", "idisp">>

\* Thread.is_alive()
ThreadIsAlive(t) ==
  CASE t \in {"edisp", "idisp"} -> thr[t].pc \notin {"dead", "exit"}
    [] t = "writer" -> wr.pc \notin {"dead", "exit"}
    [] t = "reader" -> cl.rd # "exit"

\* close() up to the first thread of _stop_threads
Close ==
  /\ cl.pc = "open"
  /\ cl' = [cl EXCEPT !.pc = "stop"]
  /\ UNCHANGED <<mode, wire, eframe, iframe_queue, idisp_queue, edisp_queue,
                 edisp_buffer, eframe_queue, idisp_frame, edisp, fsm, tmr, thr,
                 wr, alive, sbs, env, gh, wdt, rdr, cs, bf, ct>>

\* where close() goes after the thread at position cl.k
AfterThread ==
  IF cl.k < Len(StopOrder) THEN [cl EXCEPT !.pc = "stop", !.k = @ + 1]
  ELSE [cl EXCEPT !.pc = "closed"]

StopThread ==
  LET t == StopOrder[cl.k]
      put == ThreadIsAlive(t)
  IN  /\ cl.pc = "stop"
      /\ alive' = [alive EXCEPT ![t] = FALSE]
      /\ cl' = IF put THEN [cl EXCEPT !.pc = "join"] ELSE AfterThread
      /\ edisp_queue' = IF put /\ t = "edisp" THEN Append(edisp_queue, Nil)
                        ELSE edisp_queue
      /\ eframe_queue' = IF put /\ t = "writer"
                         THEN Append(eframe_queue, EQv(Nil, ""))
                         ELSE eframe_queue
      /\ idisp_queue' = IF put /\ t = "idisp" THEN Append(idisp_queue, INone)
                        ELSE idisp_queue
      /\ UNCHANGED <<mode, wire, eframe, iframe_queue, edisp_buffer,
                     idisp_frame, edisp, fsm, tmr, thr, wr, sbs, env, gh, wdt, rdr, cs, bf, ct>>

\* the join of _stop_threads returns: the thread has ended
JoinThread ==
  /\ cl.pc = "join"
  /\ ~ThreadIsAlive(StopOrder[cl.k])
  /\ cl' = AfterThread
  /\ UNCHANGED <<mode, wire, eframe, iframe_queue, idisp_queue, edisp_queue,
                 edisp_buffer, eframe_queue, idisp_frame, edisp, fsm, tmr, thr,
                 wr, alive, sbs, env, gh, wdt, rdr, cs, bf, ct>>

\* the read of the reader returns and the reader finds its flag down
ReaderExit ==
  /\ cl.rd = "read" /\ ~alive["reader"]
  /\ cl' = [cl EXCEPT !.rd = "exit"]
  /\ UNCHANGED <<mode, wire, eframe, iframe_queue, idisp_queue, edisp_queue,
                 edisp_buffer, eframe_queue, idisp_frame, edisp, fsm, tmr, thr,
                 wr, alive, sbs, env, gh, wdt, rdr, cs, bf, ct>>

\* the steps of the four threads, and the end of a cancelled timer
Threads ==
  \/ Reader
  \/ IngressDispatcher
  \/ EgressDispatcher
  \/ \E t \in Interpreters :
       Fetch(t) \/ StateAction(t) \/ Join(t) \/ IngressEventAction(t)
       \/ EgressEventAction(t)
  \/ \E g \in Gresses : TimerCancelled(g)
  \/ WriterGet \/ WriterTransmit

Next ==
  \/ \E f \in BusFrames : BusFrame(f, MaxBus)
  \/ \E f \in UpFrames : UpWrite(f, MaxUp)
  \/ Threads
  \/ \E g \in Gresses : HandleTimeout(g)

InitPart == Init /\ mode = EMSBUS_MODE_PARTCPT

Spec == InitPart /\ [][Next]_vars

\* every frame arrives, and every reply is written, before a watchdog expires
NextPrompt ==
  \/ \E f \in BusFrames : BusFrame(f, MaxBus)
  \/ \E f \in UpFrames : UpWrite(f, MaxUpPrompt)
  \/ Threads

SpecPrompt == InitPart /\ [][NextPrompt]_vars

\* the bus carries the frames of RaceBus in their order, the user application
\* writes one frame to device 16, the watchdogs expire at any time
NextRace ==
  \/ \E f \in {RaceBus[IF env.bus < Len(RaceBus) THEN env.bus + 1 ELSE 1]} :
       BusFrame(f, Len(RaceBus))
  \/ UpWrite(<<Device, 16, 24, 0, 1>>, MaxUp)
  \/ Threads
  \/ \E g \in Gresses : HandleTimeout(g)

SpecRace == InitPart /\ [][NextRace]_vars

\* the user application calls close() at any moment of a run
NextClose ==
  \/ \E f \in BusFrames : cl.pc = "open" /\ BusFrame(f, MaxBus)
  \/ \E f \in UpFrames : cl.pc = "open" /\ UpWrite(f, MaxUp)
  \/ Threads
  \/ Close \/ StopThread \/ JoinThread \/ ReaderExit

SpecClose == InitPart /\ [][NextClose]_vars

\* a broadcast of device 8 that is one octet longer than EMSBUS_Max_frame_size
LongFrame ==
  <<8, 0, 24, 0>> \o [i \in 1..(EMSBUS_Max_frame_size - 3) |-> 1]

\* either mode: the bus carries the frames of BusFrames and the long frame,
\* the user application reads what the ingress path hands it
NextFrm ==
  \/ \E f \in BusFrames \cup {LongFrame} : BusFrame(f, MaxBus)
  \/ ReadFrame
  \/ Threads
  \/ \E g \in Gresses : HandleTimeout(g)

SpecFrm == Init /\ [][NextFrm]_vars

EgressAtRest ==
  /\ thr["edisp"].pc = "get" /\ thr["etimer"].pc = "idle"
  /\ fsm["egress"].DefQueue = <<>> /\ fsm["egress"].PriQueue = <<>>

PipelineAtRest ==
  /\ wire = <<>> /\ iframe_queue = <<>> /\ edisp_queue = <<>>
  /\ eframe_queue = <<>>
  /\ thr["idisp"].pc = "get" /\ thr["edisp"].pc = "get" /\ wr.pc = "get"
  /\ thr["itimer"].pc = "idle" /\ thr["etimer"].pc = "idle"
  /\ \A g \in Gresses : ~IsAlive(tmr[g])
  /\ \A g \in Gresses : fsm[g].DefQueue = <<>> /\ fsm[g].PriQueue = <<>>

C6_CloseNeverStuck ==
  ~( /\ cl.pc = "join" /\ StopOrder[cl.k] = "idisp"
     /\ cl.rd = "exit"
     /\ thr["idisp"].pc = "get" /\ iframe_queue = <<>> )

SERIAL_Break == <<SERIAL_Escape, 0, 0>>

\* data.find( SERIAL_Break, so ): 0-based index of the first occurrence at
\* or after index so, or -1
RECURSIVE FindBreak(_, _)
FindBreak(data, so) ==
  IF so + Len(SERIAL_Break) > Len(data) THEN -1
  ELSE IF SubSeq(data, so + 1, so + Len(SERIAL_Break)) = SERIAL_Break THEN so
  ELSE FindBreak(data, so + 1)

\* a loop that stops at the last octet: the escape octets before an
\* indicator counted as none or one
EscapeRunOfOne(iframe, i) ==
  IF i < 1 \/ iframe[i] # SERIAL_Escape THEN 0 ELSE 1

\* cnt: the number of consecutive escape octets that end at octet i (1-based)
RECURSIVE EscapeRun(_, _)
EscapeRun(iframe, i) ==
  IF i < 1 \/ iframe[i] # SERIAL_Escape THEN 0
  ELSE 1 + EscapeRun(iframe, i - 1)

\* `while len(data) > 0': the result is self.iframe after the loop and the
\* frames given to _handle_iframe, in order (each call leaves self.iframe
\* empty)
RECURSIVE ScanData(_, _, _, _)
ScanData(iframe, data, so, out) ==
  IF Len(data) = 0 THEN [iframe |-> iframe, out |-> out]
  ELSE
    LET octcnt == FindBreak(data, so)
    IN  IF octcnt = -1 THEN [iframe |-> iframe \o data, out |-> out]
        ELSE
          LET fr == iframe \o SubSeq(data, 1, octcnt)
              rest == SubSeq(data, octcnt + 1, Len(data))
              cnt == EscapeRun(fr, Len(fr))
          IN  IF cnt % 2 = 0
              THEN ScanData(<<>>, SubSeq(rest, Len(SERIAL_Break) + 1, Len(rest)),
                            0, Append(out, fr))
              ELSE ScanData(fr, rest, 1, out)

\* _handle_iframe called for each of the frames in turn; st holds
\* self.eframe, iframe_queue and the counters
RECURSIVE HandleFrames(_, _)
HandleFrames(frames, st) ==
  IF frames = <<>> THEN st
  ELSE
    LET r == HandleIframe(Head(frames), st.eframe)
    IN  HandleFrames(Tail(frames),
          [eframe |-> r.eframe,
           queue |-> st.queue \o
             [i \in 1..Len(r.out) |-> [f |-> r.out[i], src |-> "bus", pair |-> ""]],
           sbs |-> Bump(st.sbs, FramerCounters(r))])

\* the read that ends behind octet cut of the line divides an occurrence of
\* the break indicator
DividesBreak(all, cut) ==
  /\ cut < Len(all)
  /\ \E i \in {cut - 1, cut} :
       /\ i >= 1
       /\ i + 2 <= Len(all)
       /\ SubSeq(all, i, i + 2) = SERIAL_Break

\* the payloads the line carries in the reader specification: up to MaxOct
\* octets, each 0x00, 0x01 or 0xff
MaxOct == 7

Octets == {0, 1, SERIAL_Escape}

Payloads == UNION { [1..n -> Octets] : n \in 0..MaxOct }

\* one pass of `while True': the read returns the next n octets
ReaderRead ==
  /\ cl.rd = "read" /\ alive["reader"]
  /\ \E n \in 1..(Len(rdr.all) - rdr.pos) :
       LET data == SubSeq(rdr.all, rdr.pos + 1, rdr.pos + n)
           sc == ScanData(rdr.iframe, data, 0, <<>>)
           st == HandleFrames(sc.out,
                   [eframe |-> eframe, queue |-> iframe_queue, sbs |-> sbs])
       IN  /\ rdr' = [rdr EXCEPT !.pos = @ + n,
                                 !.iframe = sc.iframe,
                                 !.handed = @ \o sc.out,
                                 !.split = @ \/ DividesBreak(rdr.all, rdr.pos + n)]
           /\ eframe' = st.eframe
           /\ iframe_queue' = st.queue
           /\ sbs' = st.sbs
  /\ UNCHANGED <<mode, wire, idisp_queue, edisp_queue, edisp_buffer,
                 eframe_queue, idisp_frame, edisp, fsm, tmr, thr, wr, alive,
                 env, gh, wdt, cl, cs, bf, ct>>

InitRdr ==
  /\ InstanceInit
  /\ WdtInit
  /\ mode = EMSBUS_MODE_MONITOR
  /\ rdr \in { ReaderStart(p, e) : p \in Payloads, e \in BOOLEAN }
  /\ cs = ChecksumStart(<<>>)
  /\ bf = BfsmIdle /\ ct = CountIdle

NextRdr == ReaderRead

SpecRdr == InitRdr /\ [][NextRdr]_vars

(***************************************************************************)
(* C13: the frames the reader hands to the framer depend on the octets     *)
(* received only, not on the reads that deliver them: when all octets have *)
(* been read, the frames handed over and the frame being assembled are     *)
(* those of a reader that received all octets in one read.                 *)
(***************************************************************************)
ReadAtOnce == ScanData(<<>>, rdr.all, 0, <<>>)

C13_ReadsDoNotMatter ==
  rdr.pos = Len(rdr.all) =>
    /\ rdr.handed = ReadAtOnce.out
    /\ rdr.iframe = ReadAtOnce.iframe

(***************************************************************************)
(* What the even/odd rule says of a sequence of octets s: the indicator    *)
(* ff 00 00 at octet p ends the frame that starts at octet start when the  *)
(* number of escape octets of that frame directly before p is even, and is *)
(* data of the frame when that number is odd; in both cases the scan goes  *)
(* on behind the three octets.                                             *)
(***************************************************************************)
BreakAt(s, p) == p + 2 <= Len(s) /\ SubSeq(s, p, p + 2) = SERIAL_Break

RECURSIVE RunBefore(_, _, _)
RunBefore(s, p, start) ==
  IF p - 1 < start \/ s[p - 1] # SERIAL_Escape THEN 0
  ELSE 1 + RunBefore(s, p - 1, start)

RECURSIVE FramesOf(_, _, _, _)
FramesOf(s, start, p, out) ==
  IF p > Len(s) THEN [iframe |-> SubSeq(s, start, Len(s)), out |-> out]
  ELSE IF ~BreakAt(s, p) THEN FramesOf(s, start, p + 1, out)
  ELSE IF RunBefore(s, p, start) % 2 = 0
    THEN FramesOf(s, p + 3, p + 3, Append(out, SubSeq(s, start, p - 1)))
  ELSE FramesOf(s, start, p + 3, out)

(***************************************************************************)
(* C14: an indicator ff 00 00 the reader finds in what it has read ends    *)
(* the frame if and only if an even number of escape octets precedes it in *)
(* the frame assembled so far, otherwise its octets are data of the frame; *)
(* the frames of one read are handed to the framer one by one, in order.   *)
(* Stated of the runs in which every indicator arrives within one read.    *)
(***************************************************************************)
C14_EvenRunEndsFrame ==
  (rdr.pos = Len(rdr.all) /\ ~rdr.split) =>
    /\ rdr.handed = FramesOf(rdr.all, 1, 1, <<>>).out
    /\ rdr.iframe = FramesOf(rdr.all, 1, 1, <<>>).iframe

\* one escape octet before ff 00 00 makes the three octets data of the frame
\* that the next indicator ends
C14_Witness ==
  /\ rdr.pos = Len(rdr.all) /\ ~rdr.split
  /\ rdr.handed = << <<SERIAL_Escape, SERIAL_Escape, 0, 0>> >>

(***************************************************************************)
(* C15: fed the octets ff ff 00 00 00, and likewise fed the octets         *)
(* ff ff ff 00 00 00, reader and framer deliver one frame, whose payload   *)
(* is the single octet ff.                                                 *)
(***************************************************************************)
C15_EscapedOctetThenBreak ==
  ( /\ ~rdr.esc
    /\ rdr.pos = Len(rdr.all)
    /\ rdr.all \in { <<SERIAL_Escape, SERIAL_Escape, 0, 0, 0>>,
                     <<SERIAL_Escape, SERIAL_Escape, SERIAL_Escape, 0, 0, 0>> } )
  => /\ Len(iframe_queue) = 1
     /\ iframe_queue[1].f = <<SERIAL_Escape>>

(***************************************************************************)
(* C16: for a payload P without the octets ff 00 00, the unescape step of  *)
(* the framer applied to escape(P) yields P and no erred octet, and the    *)
(* reader finds no end of frame in escape(P), however it is read.          *)
(***************************************************************************)
C16_UnescapeInvertsEscape ==
  (rdr.esc /\ ~(\E p \in 1..Len(rdr.payload) : BreakAt(rdr.payload, p))) =>
    /\ Unescape(rdr.all) = [frame |-> rdr.payload, err |-> 0]
    /\ rdr.handed = <<>>
    /\ rdr.pos = Len(rdr.all) => rdr.iframe = rdr.all

\* a payload with an escape octet in front of a zero octet, read to its end
C16_Witness ==
  /\ rdr.esc
  /\ rdr.payload = <<1, SERIAL_Escape, 0, 1, SERIAL_Escape>>
  /\ rdr.pos = Len(rdr.all)
  /\ rdr.iframe = rdr.all

(***************************************************************************)
(* The line as the framer sees it: frames as they are received, with or    *)
(* without a correct check-sum, with framing errors, short and empty.      *)
(***************************************************************************)
\* a broadcast and a frame addressed to device 16, both from device 8
GoodFrames == { <<8, 0, 24, 0, 1>>, <<8, 16, SERIAL_Escape, 0, 2>> }

RawFrames ==
  { OnWire(f) : f \in GoodFrames }
  \cup { Escape(Append(f, BitAnd(CalcChecksum(Append(f, 0)) + 1, 255))) :
           f \in GoodFrames }
  \cup { <<>>, <<BitOr(Device, 128)>>, <<Device>>, <<8, 0>>,
         <<8, 0, SERIAL_Escape, SERIAL_FrmErr, 7, 0, 1>> }

\* octets arrive as they are given, followed by a break
BusRaw(raw, max) ==
  /\ env.bus < max
  /\ env' = [env EXCEPT !.bus = @ + 1]
  /\ wire' = Append(wire, [f |-> raw, src |-> "bus", pair |-> gh.pending])
  /\ gh' = [gh EXCEPT !.pending = ""]
  /\ UNCHANGED <<mode, eframe, iframe_queue, idisp_queue, edisp_queue,
                 edisp_buffer, eframe_queue, idisp_frame, edisp, fsm, tmr, thr,
                 wr, alive, sbs, wdt, cl, rdr, cs, bf, ct>>

\* the number of frames the line carries in the framer specification
MaxRaw == 3

NextRaw ==
  \/ \E raw \in RawFrames : BusRaw(raw, MaxRaw)
  \/ Threads
  \/ \E g \in Gresses : HandleTimeout(g)

SpecRaw == Init /\ [][NextRaw]_vars

(***************************************************************************)
(* C11: a frame of more than one octet that the framer puts on its queue   *)
(* with a payload other than ERR was received with a last octet equal to   *)
(* the check-sum of the octets before it, and is queued without that last  *)
(* octet and otherwise unchanged; a received frame whose last octet is not *)
(* that check-sum is never queued as a normal frame.  Stated of every call *)
(* of _handle_iframe: received is the frame after the unescape step,       *)
(* queued are the entries the call adds to iframe_queue.                   *)
(***************************************************************************)
C11_ChecksumVerifiedAndStripped ==
  [][ (wire # <<>> /\ wire' = Tail(wire)) =>
        LET received == Unescape(Head(wire).f).frame
            n == Len(received)
            queued == SubSeq(iframe_queue', Len(iframe_queue) + 1, Len(iframe_queue'))
        IN  \A i \in DOMAIN queued :
              (Len(queued[i].f) > 1 /\ queued[i].f # ERR) =>
                /\ n >= 2
                /\ received[n] = CalcChecksum(received)
                /\ queued[i].f = SubSeq(received, 1, n - 1)
    ]_vars

\* a frame with a correct check-sum and the sentinel of an erred frame are
\* on the framer's queue, and a check-sum error has been counted
C11_Witness ==
  /\ \E i \in DOMAIN iframe_queue : iframe_queue[i].f = <<8, 16, SERIAL_Escape, 0, 2>>
  /\ \E i \in DOMAIN iframe_queue : iframe_queue[i].f = ERR
  /\ sbs["ingress_err_frames"] >= 1
  /\ sbs["ingress_errors"] = 0

(***************************************************************************)
(* C18: ingress_total_frames is at least the sum of the ingress counters   *)
(* per kind of frame, of ingress_err_frames, of ingress_empty_frames and   *)
(* of ingress_short_frames.                                                *)
(***************************************************************************)
C18_TotalCoversKinds ==
  sbs["ingress_total_frames"] >=
    sbs["ingress_polreq_frames"] + sbs["ingress_polrep_frames"]
    + sbs["ingress_reareq_frames"] + sbs["ingress_rearep_frames"]
    + sbs["ingress_wrireq_frames"] + sbs["ingress_wrirep_frames"]
    + sbs["ingress_err_frames"] + sbs["ingress_empty_frames"]
    + sbs["ingress_short_frames"]

(***************************************************************************)
(* C12: for every entry with a frame that the writer takes from its queue, *)
(* the octets written to the line are the frame followed by its check-sum  *)
(* when the frame has four octets or more, and the frame as it is when it  *)
(* has fewer.  Stated of the two steps of the writer: having taken such an *)
(* entry it goes on to write, and what it writes are those octets (the     *)
(* line gives them back with every 0xff doubled).                          *)
(***************************************************************************)
OctetsToWrite(f) ==
  IF Len(f) >= 4 THEN Append(f, CalcChecksum(Append(f, 0))) ELSE f

C18_Witness ==
  /\ sbs["ingress_total_frames"] = 3
  /\ sbs["ingress_empty_frames"] = 1
  /\ sbs["ingress_err_frames"] = 1
  /\ sbs["ingress_rearep_frames"] + sbs["ingress_wrireq_frames"] = 1
  /\ \E i \in DOMAIN idisp_queue : idisp_queue[i].f = <<8, 16, SERIAL_Escape, 0, 2>>

(***************************************************************************)
(* The user application and the egress dispatcher: frames of any length    *)
(* are put on edisp_queue, in either mode, while the bus polls this device *)
(* and carries the frames of other devices.                                *)
(***************************************************************************)
\* a frame of n octets the user application writes, addressed to device 16
\* when it has a destination
UpOfLen(n) == [i \in 1..n |-> IF i = 1 THEN Device ELSE IF i = 2 THEN 16 ELSE 1]

\* the lengths around the limits of the egress dispatcher, and the two
\* frames of one octet: a write reply and any other
UpAny ==
  { UpOfLen(n) : n \in {0, 1, 2, EMSBUS_Min_frame_size - 1,
                        EMSBUS_Min_frame_size, EMSBUS_Max_frame_size,
                        EMSBUS_Max_frame_size + 1} }
  \cup { <<1>> }

\* the number of frames the user application writes in this specification
MaxUpAny == 2

\* the number of frames the bus carries in this specification
MaxBusUp == 1

NextUp ==
  \/ \E f \in BusFrames : BusFrame(f, MaxBusUp)
  \/ \E f \in UpAny : UpWrite(f, MaxUpAny)
  \/ Threads
  \/ \E g \in Gresses : HandleTimeout(g)

SpecUp == Init /\ [][NextUp]_vars

(***************************************************************************)
(* C19: in monitor mode egress_total_frames is 0, whatever frames the bus  *)
(* carried and whatever frames, of any length, the user application gave   *)
(* to the egress dispatcher.                                               *)
(***************************************************************************)
C19_MonitorCountsNoEgress ==
  mode = EMSBUS_MODE_MONITOR => sbs["egress_total_frames"] = 0

(***************************************************************************)
(* C20: an entry of edisp_buffer or eframe_queue that came from the user   *)
(* application is a single write-reply code or has 4 to 34 octets; when    *)
(* the egress dispatcher takes any other frame of fewer than 4 octets it   *)
(* increments egress_err_short_frames, when it takes a frame of 35 octets  *)
(* or more it increments egress_err_long_frames, and in both cases the     *)
(* frame is not passed to the FSM.                                         *)
(***************************************************************************)
\* a frame the egress dispatcher may pass on
Passable(f) ==
  \/ Len(f) = 1 /\ f[1] \in EMS_Write_reply
  \/ Len(f) \in EMSBUS_Min_frame_size..EMSBUS_Max_frame_size

\* the entries of a queue of the egress path that the user application wrote
FromUpstream(q) ==
  { q[i].f : i \in { j \in 1..Len(q) : q[j].k = "frm" /\ q[j].Type # "polrep" } }

C20_OnlyFramesOfValidLengthPass ==
  /\ [](\A f \in FromUpstream(edisp_buffer) \cup FromUpstream(eframe_queue) :
          Passable(f))
  /\ [][ (Len(edisp_queue') < Len(edisp_queue) /\ Head(edisp_queue).k = "frm"
          /\ ~Passable(Head(edisp_queue).f)) =>
           /\ fsm'["egress"].DefQueue = fsm["egress"].DefQueue
           /\ thr'["edisp"].pc # "dead"
           /\ IF Len(Head(edisp_queue).f) < EMSBUS_Min_frame_size
              THEN sbs'["egress_err_short_frames"]
                     = sbs["egress_err_short_frames"] + 1
              ELSE sbs'["egress_err_long_frames"]
                     = sbs["egress_err_long_frames"] + 1 ]_vars

(***************************************************************************)
(* C21: in participate mode every frame of one octet equal to the device   *)
(* id that the framer hands to the ingress dispatcher (so: not taken for   *)
(* an echo) increments bus_address_conflict by exactly 1 and nothing else  *)
(* changes that counter; once a conflict is counted neither dispatcher     *)
(* thread has ended, a poll of this device is still passed on as PQ and    *)
(* the egress FSM still answers PQ with a polrep; in monitor mode          *)
(* bus_address_conflict stays 0.                                           *)
(***************************************************************************)
\* the ingress dispatcher takes the frame f from iframe_queue in this step
IdispTakes(f) ==
  Len(iframe_queue') < Len(iframe_queue) /\ Head(iframe_queue).f = f

\* the dispatcher thread t completes the event action of stimulus stim
Completes(t, stim) ==
  thr[t].pc = "action" /\ thr[t].Stim = stim /\ thr'[t].pc # "action"

NewOutcome(device, m) ==
  IF device <= 0 \/ device > 127 \/ device \in EMS_Write_reply THEN "ValueError"
  ELSE IF m < EMSBUS_MODE_MONITOR \/ m > EMSBUS_MODE_MONPART THEN "ValueError"
  ELSE IF m \notin FSMDTModes THEN "KeyError"
  ELSE "ok"

\* the modes a caller may pass: the three of the documentation, and one on
\* either side of them
ModeArgs == (EMSBUS_MODE_MONITOR - 1)..(EMSBUS_MODE_MONPART + 1)

\* Emsbus( Device, mode ), followed by open() when there is an instance
New ==
  /\ cl.pc = "new"
  /\ cl' = [cl EXCEPT !.pc = IF NewOutcome(Device, mode) = "ok" THEN "open"
                             ELSE NewOutcome(Device, mode)]
  /\ UNCHANGED <<mode, wire, eframe, iframe_queue, idisp_queue, edisp_queue,
                 edisp_buffer, eframe_queue, idisp_frame, edisp, fsm, tmr, thr,
                 wr, alive, sbs, env, gh, wdt, rdr, cs, bf, ct>>

InitNew ==
  /\ mode \in ModeArgs
  /\ Attributes
  /\ cl = [pc |-> "new", k |-> 1, rd |-> "read"]
  /\ rdr = ReaderStart(<<>>, FALSE)
  /\ cs = ChecksumStart(<<>>)
  /\ bf = BfsmIdle /\ ct = CountIdle
  /\ WdtInit

NextNew ==
  \/ New
  \/ cl.pc = "open" /\ NextFrm

SpecNew == InitNew /\ [][NextNew]_vars

(***************************************************************************)
(* C22: the constructor accepts the mode mixed (EMSBUS_MODE_MONPART) as it *)
(* accepts monitor and participate, and the driver it makes has an ingress *)
(* and an egress state machine: construction raises only for a mode        *)
(* outside the three, and an instance in the mode mixed has a transition   *)
(* matrix whose egress side is that of the participate mode.               *)
(***************************************************************************)
C22_MixedModeHasStateMachines ==
  /\ cl.pc \in {"ValueError", "KeyError"} =>
       mode \notin EMSBUS_MODE_MONITOR..EMSBUS_MODE_MONPART
  /\ (cl.pc = "open" /\ mode = EMSBUS_MODE_MONPART) =>
       /\ mode \in FSMDTModes
       /\ FSMDT(mode, "egress") = ParticipateEgress

(***************************************************************************)
(* The bus as a participant sees it: frames of device 8 to this device, to *)
(* every device, and to device 16, requests and replies, and polls; the    *)
(* user application writes a reply and reads what is passed on to it.      *)
(***************************************************************************)
\* the destinations: this device, a read request to it, the broadcast,
\* device 16 and a read request to device 16
Destinations == {Device, BitOr(Device, 128), 0, 16, BitOr(16, 128)}

\* with a poll of this device, a write reply and the poll reply of device 16
AddressedFrames ==
  { <<8, d, 24, 0, 1>> : d \in Destinations }
  \cup { <<BitOr(Device, 128)>>, <<1>>, <<16>> }

\* the number of frames the bus carries in this specification
MaxBusAddr == 2

\* the frames of AddressedFrames, or two octets and a break: a short frame
NextAddr ==
  \/ \E f \in AddressedFrames : BusFrame(f, MaxBusAddr)
  \/ BusRaw(<<8, 0>>, MaxBusAddr)
  \/ UpWrite(<<Device, 0, 24, 0, 1>>, MaxUp)
  \/ ReadFrame
  \/ Threads
  \/ \E g \in Gresses : HandleTimeout(g)

SpecAddr == Init /\ [][NextAddr]_vars

(***************************************************************************)
(* C23: in participate mode a frame of more than one octet that is added   *)
(* to idisp_queue, the queue read_frame() reads, has the destination octet *)
(* Device, Device + 0x80 (a read request to this device) or 0 (every       *)
(* device); a frame with another destination is never added, and no entry  *)
(* of the matrix, in any state, passes such a frame on.                    *)
(***************************************************************************)
\* in no state of the matrix does the action of a frame stimulus pass on a
\* frame to device 16
NoStatePassesForeign ==
  \A st \in DOMAIN ParticipateIngress :
    \A stim \in {"reareq", "rearep", "wrireq"} :
      \A d \in {16, BitOr(16, 128)} :
        IngressAction(ParticipateIngress[st][stim][2],
                      IQv(Fr(<<8, d, 24, 0, 1>>), stim, "")).up = <<>>

C23_OnlyOwnFramesForwarded ==
  /\ [](mode = EMSBUS_MODE_PARTCPT => NoStatePassesForeign)
  /\ [][ (mode = EMSBUS_MODE_PARTCPT /\ Len(idisp_queue') > Len(idisp_queue)) =>
           LET e == idisp_queue'[Len(idisp_queue')]
           IN  (e.k = "frm" /\ Len(e.f) > 1) =>
                 e.f[EMS_Destin + 1] \in {Device, BitOr(Device, 128), 0} ]_vars

\* a write request to this device has been passed on, and a frame to
\* device 16 has been handled without reaching the queue
C23_Witness ==
  /\ mode = EMSBUS_MODE_PARTCPT
  /\ env.bus = 2
  /\ wire = <<>> /\ iframe_queue = <<>> /\ thr["idisp"].pc = "get"
  /\ sbs["ingress_wrireq_frames"] = 2
  /\ Len(idisp_queue) = 1
  /\ idisp_queue[1].f = <<8, Device, 24, 0, 1>>

(***************************************************************************)
(* C24: in monitor mode a frame that the ingress dispatcher takes from the *)
(* framer is added to idisp_queue when it is a frame of more than one      *)
(* octet other than b'ERR' or a write-reply octet, and only then; it is    *)
(* added once, and before the dispatcher takes the next frame, so the      *)
(* queue holds the frames in the order of their arrival.  A poll request,  *)
(* a poll reply and b'ERR' are never added.                                *)
(***************************************************************************)
\* a frame that is to be passed on in monitor mode
Forwardable(f) ==
  \/ Len(f) = 1 /\ f[1] \in EMS_Write_reply
  \/ Len(f) > 1 /\ f # ERR

\* the entry of idisp_queue that forwards frame fr: the frame with its kind
\* decided
Forwarded(e, fr) == e.k = "frm" /\ e.f = fr.f

\* no frame or stimulus is being handled
IngressAtRest ==
  /\ wire = <<>> /\ iframe_queue = <<>>
  /\ thr["idisp"].pc = "get" /\ thr["itimer"].pc = "idle"
  /\ fsm["ingress"].DefQueue = <<>> /\ fsm["ingress"].PriQueue = <<>>

ChecksumBody(chks, octet) ==
  BigXor(IF BigBit7(chks) THEN BigOr1(BigShl1(BigXor(chks, ToBits(12))))
                          ELSE BigShl1(chks),
         ToBits(octet))

\* for i in range( len(bfr)-1 )
ChecksumStep ==
  /\ cs.i < Len(cs.bfr) - 1
  /\ cs' = [cs EXCEPT !.i = @ + 1, !.chks = ChecksumBody(@, cs.bfr[cs.i + 1])]
  /\ UNCHANGED <<mode, wire, eframe, iframe_queue, idisp_queue, edisp_queue,
                 edisp_buffer, eframe_queue, idisp_frame, edisp, fsm, tmr, thr,
                 wr, alive, sbs, env, gh, wdt, cl, rdr, bf, ct>>

\* the number of octets of a buffer, its last octet not counted
MaxSum == 4

\* octets with and without bit 7, the mask, and all ones
SumOctets == {0, 1, 12, 128, SERIAL_Escape}

\* the buffers: every sequence of 1 to MaxSum of these octets and the frame
\* of 35 octets, each followed by the place of the check-sum
Buffers ==
  { Append(p, 0) : p \in UNION { [1..n -> SumOctets] : n \in 1..MaxSum } }
  \cup { Append(LongFrame, 0) }

InitSum ==
  /\ InstanceInit /\ WdtInit
  /\ rdr = ReaderStart(<<>>, FALSE)
  /\ cs \in { ChecksumStart(b) : b \in Buffers }
  /\ bf = BfsmIdle /\ ct = CountIdle

SpecSum == InitSum /\ [][ChecksumStep]_vars

(***************************************************************************)
(* C25: with the accumulator kept to 8 bits in every iteration (start 0;   *)
(* per octet: shifted left, after an exclusive or with 0x0c and with bit 0 *)
(* set when bit 7 was set; then the exclusive or with the octet) the       *)
(* result is that of _calc_checksum: the low 8 bits of the accumulator of  *)
(* the code follow the reference in every iteration, so the check-sum of a *)
(* buffer with one octet more is one iteration applied to the check-sum of *)
(* the buffer.                                                             *)
(***************************************************************************)
\* exclusive or of two numbers
BitXor(a, b) == BitOr(a, b) - BitAnd(a, b)

\* one iteration of the reference, on an accumulator of 8 bits
RefStep(acc, octet) ==
  BitXor(IF acc >= 128 THEN (BitOr(BitXor(acc, 12) * 2, 1)) % 256
                       ELSE (acc * 2) % 256,
         octet)

\* the reference over the first n octets of bfr
RECURSIVE RefChecksum(_, _)
RefChecksum(bfr, n) ==
  IF n = 0 THEN 0 ELSE RefStep(RefChecksum(bfr, n - 1), bfr[n])

C25_ChecksumIsEightBitReference ==
  /\ [](BigLow8(cs.chks) = RefChecksum(cs.bfr, cs.i))
  /\ [](cs.i = Len(cs.bfr) - 1 =>
          CalcChecksum(cs.bfr) = RefChecksum(cs.bfr, Len(cs.bfr) - 1))
  /\ [][cs'.i = cs.i + 1 =>
          BigLow8(cs'.chks) = RefStep(BigLow8(cs.chks), cs.bfr[cs'.i])]_vars

\* the loop has ended with an accumulator that does not fit in 8 bits
C25_Witness ==
  /\ cs.i = Len(cs.bfr) - 1
  /\ cs.i = MaxSum
  /\ \E i \in 9..Len(cs.chks) : cs.chks[i] = 1
  /\ BigLow8(cs.chks) = CalcChecksum(cs.bfr)

(***************************************************************************)
(* C26: in monitor mode the event action of rporwq makes the frame a       *)
(* rearep when the ingress FSM is in RxRq and a wrireq when it is in Init, *)
(* leaving the state as it is and the decided kind as the next stimulus;   *)
(* that stimulus passes the frame on and takes the FSM from RxRq to Init   *)
(* (rearep) or from Init to RxWq (wrireq).  A reareq in Init is passed on  *)
(* and takes the FSM to RxRq.  A frame of one of these kinds is passed on  *)
(* before the dispatcher takes the next frame.                             *)
(***************************************************************************)
\* the event action that ends in this step passes self.idisp_frame on
PassesOn ==
  /\ idisp_frame.k = "frm"
  /\ idisp_queue' = Append(idisp_queue, idisp_frame)

\* the event action of stim that ends in this step, the FSM being in state
\* from, decides the kind of the frame and reports it with high priority
Decides(t, from, kind) ==
  (Completes(t, "rporwq") /\ fsm["ingress"].State = from) =>
    /\ idisp_frame'.Type = kind /\ idisp_frame'.f = idisp_frame.f
    /\ fsm'["ingress"].PriQueue = <<kind>>
    /\ fsm'["ingress"].State = from

\* the event action of stim that ends in this step, the FSM being in state
\* from, passes the frame on and takes the FSM to state to
Delivers(t, stim, from, to) ==
  (Completes(t, stim) /\ fsm["ingress"].State = from) =>
    PassesOn /\ fsm'["ingress"].State = to

UnpairedInMonitor ==
  {<<"rearep", "Init">>, <<"wrirep", "Init">>, <<"rearep", "RxWq">>,
   <<"wrirep", "RxRq">>, <<"reareq", "RxRq">>, <<"wrireq", "RxRq">>,
   <<"reareq", "RxWq">>, <<"wrireq", "RxWq">>}

ReportsAndPassesOn ==
  /\ sbs'["ingress_err_protocol"] = sbs["ingress_err_protocol"] + 1
  /\ PassesOn

ReadReplies == {IQv(Fr(<<8, d, 24, 0, 1>>), "rearep", "RQ") : d \in {Device, 0}}

\* the entry of the participate ingress matrix answers fr with XD
AnswersWithXD(state, stim, fr) ==
  LET entry == FSMDT(EMSBUS_MODE_PARTCPT, "ingress")[state][stim]
  IN  /\ entry[1] = "Init"
      /\ IngressAction(entry[2], fr).sig = <<Sg("XD")>>

\* the frame in hand is the reply to the request the writer has transmitted
PairedReply(stim) ==
  \/ idisp_frame.pair = "RQ" /\ stim = "rearep"
  \/ idisp_frame.pair = "WQ" /\ stim = "wrirep"

WaitingStates(g) ==
  IF g = "ingress" THEN {"RxRq", "RxWq", "XmRq", "XmWq"}
                   ELSE {"WiRp", "WiWp", "WiRpb", "WiWpb", "WeXd"}

\* the timer of the watchdog is waiting and has not been cancelled
Armed(t) == t.st = "wait" /\ ~t.fin

FsmAtRest(g) ==
  /\ thr[IF g = "ingress" THEN "idisp" ELSE "edisp"].pc = "get"
  /\ thr[TimerThreadOf(g)].pc = "idle"
  /\ fsm[g].DefQueue = <<>> /\ fsm[g].PriQueue = <<>>

InInterpreter(t) == thr[t].pc \in {"fetch", "staact", "join", "action"}

StateVariables(f) == <<f.State, f.PrvState, f.NxtState, f.Stimulus>>

DefQueueSize == 16
PriQueueSize == 2

\* the number of calls of HandleEvent
MaxEvents == 3

\* the matrix of the instance: new state and event action per state and
\* stimulus
Matrix ==
  [Init |-> [go   |-> <<"Busy", "augment_more">>,
             more |-> <<"Init", "do_nothing">>,
             done |-> <<"Init", "do_nothing">>,
             tick |-> <<"Init", "report_go_done">>],
   Busy |-> [go   |-> <<"Busy", "augment_more">>,
             more |-> <<"Busy", "do_nothing">>,
             done |-> <<"Init", "do_nothing">>,
             tick |-> <<"Busy", "report_go_done">>]]

\* the state action vector: Init has a state action, Busy has none
StaAct == [Init |-> "check", Busy |-> "None"]

\* the stimuli the caller passes to HandleEvent
CallerStimuli == {"go", "done", "tick"}

\* what the event actions put on the queues: AugmentEvent, ReportEvent
Augments(a) == IF a = "augment_more" THEN <<"more">> ELSE <<>>
Reports(a) == IF a = "report_go_done" THEN <<"go", "done">> ELSE <<>>

\* if not self.PriQueue.empty()
FromDefQueueFirst(f) == f.DefQueue = <<>>

FromPriQueue(f) == f.PriQueue # <<>>

\* HandleEvent( Stim ): ReportEvent, then _Interpret
BfsmHandleEvent ==
  /\ bf.pc = "idle" /\ bf.n < MaxEvents
  /\ Len(bf.fsm.DefQueue) < DefQueueSize
  /\ \E Stim \in CallerStimuli :
       bf' = [bf EXCEPT !.fsm.DefQueue = Append(@, Stim), !.pc = "fetch",
                        !.n = @ + 1]
  /\ UNCHANGED <<mode, wire, eframe, iframe_queue, idisp_queue, edisp_queue,
                 edisp_buffer, eframe_queue, idisp_frame, edisp, fsm, tmr, thr,
                 wr, alive, sbs, env, gh, wdt, cl, rdr, cs, ct>>

\* the top of the loop of _Interpret up to the state action
BfsmFetch ==
  LET f == bf.fsm
      pri == FromPriQueue(f)
      Stim == IF pri THEN Head(f.PriQueue) ELSE Head(f.DefQueue)
      entry == Matrix[f.State][Stim]
      sa == StaAct[f.State]
  IN  /\ bf.pc = "fetch"
      /\ IF f.PriQueue = <<>> /\ f.DefQueue = <<>>
         THEN bf' = [bf EXCEPT !.pc = "idle", !.Stim = "", !.NewState = "",
                               !.Action = ""]
         ELSE bf' = [bf EXCEPT
                !.fsm.PriQueue = IF pri THEN Tail(@) ELSE @,
                !.fsm.DefQueue = IF pri THEN @ ELSE Tail(@),
                !.fsm.Stimulus = Stim,
                !.fsm.NxtState = IF sa # "None" THEN entry[1] ELSE @,
                !.pc = IF sa # "None" THEN "staact" ELSE "action",
                !.Stim = Stim, !.NewState = entry[1], !.Action = entry[2]]
  /\ UNCHANGED <<mode, wire, eframe, iframe_queue, idisp_queue, edisp_queue,
                 edisp_buffer, eframe_queue, idisp_frame, edisp, fsm, tmr, thr,
                 wr, alive, sbs, env, gh, wdt, cl, rdr, cs, ct>>

\* if not self.StaAct[self.State]( self.Owner ): continue
BfsmStateAction ==
  /\ bf.pc = "staact"
  /\ \E ret \in BOOLEAN :
       bf' = [bf EXCEPT !.pc = IF ret THEN "action" ELSE "fetch"]
  /\ UNCHANGED <<mode, wire, eframe, iframe_queue, idisp_queue, edisp_queue,
                 edisp_buffer, eframe_queue, idisp_frame, edisp, fsm, tmr, thr,
                 wr, alive, sbs, env, gh, wdt, cl, rdr, cs, ct>>

\* Action( self.Owner ) and the three assignments that follow it
BfsmEventAction ==
  /\ bf.pc = "action"
  /\ Len(bf.fsm.PriQueue) + Len(Augments(bf.Action)) <= PriQueueSize
  /\ Len(bf.fsm.DefQueue) + Len(Reports(bf.Action)) <= DefQueueSize
  /\ bf' = [bf EXCEPT
       !.fsm = [@ EXCEPT !.PriQueue = @ \o Augments(bf.Action),
                         !.DefQueue = @ \o Reports(bf.Action),
                         !.PrvState = bf.fsm.State,
                         !.State = bf.NewState,
                         !.NxtState = "None"],
       !.pc = "fetch"]
  /\ UNCHANGED <<mode, wire, eframe, iframe_queue, idisp_queue, edisp_queue,
                 edisp_buffer, eframe_queue, idisp_frame, edisp, fsm, tmr, thr,
                 wr, alive, sbs, env, gh, wdt, cl, rdr, cs, ct>>

NextBfsm == BfsmHandleEvent \/ BfsmFetch \/ BfsmStateAction \/ BfsmEventAction

SpecBfsm == Init /\ [][NextBfsm]_vars

(***************************************************************************)
(* C31: when the state action run for a stimulus returns a false value,    *)
(* the event action of the entry is not invoked and the FSM moves to the   *)
(* new state of the entry: State becomes the new state and PrvState the    *)
(* state it was in.                                                        *)
(***************************************************************************)
StateActionReturnsFalse == bf.pc = "staact" /\ bf'.pc = "fetch"

C31_FalseStateActionStillMoves ==
  [][ StateActionReturnsFalse =>
        /\ bf'.fsm.PriQueue = bf.fsm.PriQueue
        /\ bf'.fsm.DefQueue = bf.fsm.DefQueue
        /\ bf'.fsm.State = bf.NewState
        /\ bf'.fsm.PrvState = bf.fsm.State ]_vars

(***************************************************************************)
(* C32: the interpreter takes the head of the high priority queue whenever *)
(* that queue is not empty, else the head of the default queue; the queues *)
(* change at their ends only (a stimulus is taken from the head and put at *)
(* the tail); outside HandleEvent both queues are empty.                   *)
(***************************************************************************)
\* q is p with stimuli put at its tail
Extends(p, q) == Len(q) >= Len(p) /\ SubSeq(q, 1, Len(p)) = p

\* the interpreter fetches a stimulus in this step
Fetches == bf.pc = "fetch" /\ bf'.pc \in {"staact", "action"}

C32_PriorityThenFifo ==
  /\ [](bf.pc = "idle" => bf.fsm.PriQueue = <<>> /\ bf.fsm.DefQueue = <<>>)
  /\ [][ /\ (Fetches /\ bf.fsm.PriQueue # <<>>) =>
              /\ bf'.fsm.Stimulus = Head(bf.fsm.PriQueue)
              /\ bf'.fsm.PriQueue = Tail(bf.fsm.PriQueue)
              /\ bf'.fsm.DefQueue = bf.fsm.DefQueue
         /\ (Fetches /\ bf.fsm.PriQueue = <<>>) =>
              /\ bf'.fsm.Stimulus = Head(bf.fsm.DefQueue)
              /\ bf'.fsm.DefQueue = Tail(bf.fsm.DefQueue)
              /\ bf'.fsm.PriQueue = <<>>
         /\ ~Fetches =>
              /\ Extends(bf.fsm.PriQueue, bf'.fsm.PriQueue)
              /\ Extends(bf.fsm.DefQueue, bf'.fsm.DefQueue)
         /\ (bf.pc = "fetch" /\ bf'.pc = "idle") =>
              bf.fsm.PriQueue = <<>> /\ bf.fsm.DefQueue = <<>>
     ]_vars

\* the stimulus put by AugmentEvent is being handled while one that was put by
\* ReportEvent before it is still waiting
C32_Witness ==
  /\ bf.pc = "action" /\ bf.fsm.Stimulus = "more"
  /\ bf.fsm.DefQueue = <<"done">> /\ bf.fsm.PrvState = "Init"
  /\ bf.fsm.State = "Busy"

(***************************************************************************)
(* The egress side in participate mode: the bus carries polls of this      *)
(* device and read and write requests to it, the user application writes   *)
(* a frame to device 16 without and with bit 7 of the destination and a    *)
(* frame to all.  No watchdog expires.                                     *)
(***************************************************************************)
EgressBus ==
  { <<BitOr(Device, 128)>>, <<8, BitOr(Device, 128), 24, 0, 1>>,
    <<8, Device, 24, 0, 1>> }

EgressUp ==
  { <<Device, 16, 24, 0, 1>>, <<Device, BitOr(16, 128), 24, 0, 1>>,
    <<Device, 0, 24, 0, 1>> }

MaxBusEgr == 2

MaxUpEgr == 2

NextEgr ==
  \/ \E f \in EgressBus : BusFrame(f, MaxBusEgr)
  \/ \E f \in EgressUp : UpWrite(f, MaxUpEgr)
  \/ Threads

SpecEgr == InitPart /\ [][NextEgr]_vars

WaitsOnEmptyBuffer(t) ==
  /\ thr[t].pc = "action" /\ thr[t].Action = "efsm_forward_buffer"
  /\ edisp_buffer = <<>>

MaxBusLive == 2

MaxUpLive == 1

LiveBus == {<<BitOr(Device, 128)>>, <<8, BitOr(Device, 128), 24, 0, 1>>}
LiveUp == {<<Device, 16, 24, 0, 1>>}

NextLive ==
  \/ \E f \in LiveBus : BusFrame(f, MaxBusLive)
  \/ \E f \in LiveUp : UpWrite(f, MaxUpLive)
  \/ Threads
  \/ \E g \in Gresses : HandleTimeout(g)

\* the reader has octets to read; the writer has a record to get or to send
ReaderReady == cl.rd = "read" /\ alive["reader"] /\ wire # <<>>
WriterReady == (wr.pc = "get" /\ eframe_queue # <<>>) \/ wr.pc = "xmit"

(***************************************************************************)
(* Every thread that can take a step takes one in the end.  For the reader *)
(* and the writer the weak fairness is written out, WF_vars(A) being       *)
(* <>[]ENABLED <<A>>_vars => []<><<A>>_vars, with the guard of the thread  *)
(* for ENABLED.                                                            *)
(***************************************************************************)
Fairness ==
  /\ <>[]ReaderReady => []<><<Reader>>_vars
  /\ <>[]WriterReady => []<><<WriterGet \/ WriterTransmit>>_vars
  /\ WF_vars(IngressDispatcher)
  /\ WF_vars(EgressDispatcher)
  /\ \A t \in Interpreters :
       WF_vars(Fetch(t) \/ StateAction(t) \/ Join(t)
               \/ IngressEventAction(t) \/ EgressEventAction(t))
  /\ \A g \in Gresses : WF_vars(TimerCancelled(g) \/ HandleTimeout(g))

SpecLive == InitPart /\ [][NextLive]_vars /\ Fairness

(***************************************************************************)
(* C35: in participate mode, with every thread scheduled fairly, the       *)
(* number of polreps the egress FSM has put on eframe_queue eventually     *)
(* reaches the number of PQ signals put on edisp_queue.                    *)
(***************************************************************************)
\* the entries of queue q that satisfy Is
CountOf(q, Is(_)) == Cardinality({i \in DOMAIN q : Is(q[i])})

IsPolrep(qv) == qv.Type = "polrep"

IsPQ(v) == v.k = "sig" /\ v.s = "PQ"

\* the poll being handled by the ingress FSM has not been signalled yet
PollInHand == IF idisp_frame.Type = "polreq" THEN 1 ELSE 0

\* PQ signals put so far: every poll counted by the ingress dispatcher is one
\* of this device and is passed on by ifsm_passon_polreq
PQPut == sbs["ingress_polreq_frames"] - PollInHand

\* polreps put so far: those the writer has counted and those still queued
PolrepsPut == sbs["egress_polrep_frames"] + CountOf(eframe_queue, IsPolrep)

Accepts ==
  /\ Len(edisp_buffer') = Len(edisp_buffer) + 1
  /\ SubSeq(edisp_buffer', 1, Len(edisp_buffer)) = edisp_buffer
  /\ eframe_queue' = eframe_queue

ForwardsOldest ==
  /\ edisp_buffer # <<>>
  /\ edisp_buffer' = Tail(edisp_buffer)
  /\ eframe_queue' = Append(eframe_queue, Head(edisp_buffer))
  /\ \E t \in {"edisp", "etimer"} :
       /\ thr[t].pc = "action" /\ thr[t].Stim = "rcvpq"
       /\ thr'[t].pc = "fetch"

Decided(q) ==
  { i \in 1..Len(q) : q[i].k = "frm" /\ q[i].Type # "polrep"
                      /\ EgressType(q[i].f) \in {"reareq", "rearep"} }

KindAsHandled(q) == \A i \in Decided(q) : q[i].Type = EgressType(q[i].f)

RecordsWithoutKind(t) ==
  /\ thr[t].pc = "action"
  /\ thr[t].Action \in {"efsm_buffer_frame", "efsm_forward_frame"}
  /\ edisp.frame_type = "unset"

Awaited(g) ==
  IF g = "ingress"
  THEN {<<"RxRq", "rearep">>, <<"XmRq", "rearep">>,
        <<"RxWq", "wrirep">>, <<"XmWq", "wrirep">>}
  ELSE {<<"WeXd", "rcvxd">>, <<"WiRp", "rearep">>, <<"WiRpb", "rearep">>,
        <<"WiWp", "wrirep">>, <<"WiWpb", "wrirep">>}

HandlesAwaited(t) ==
  /\ <<fsm[GressOf(t)].State, thr[t].Stim>> \in Awaited(GressOf(t))
  /\ thr[t].pc = "action" /\ thr'[t].pc = "fetch"

MaxRejected == 2
MaxDequeued == 2

RestOfState ==
  <<mode, wire, eframe, iframe_queue, idisp_queue, edisp_queue, edisp_buffer,
    eframe_queue, idisp_frame, edisp, fsm, tmr, thr, wr, alive, sbs, env, gh,
    wdt, cl, rdr, cs, bf>>

\* the item is read, the sum is kept by the thread
Loaded(c) == [pc |-> "store", val |-> c.sbs + 1]

\* egress_dispatcher: the frame taken is too short or too long
DispatcherRejects ==
  /\ ct.ed.pc = "get" /\ ct.rejected < MaxRejected
  /\ ct' = [ct EXCEPT !.rejected = @ + 1, !.ed = Loaded(ct)]
  /\ UNCHANGED RestOfState

DispatcherStores ==
  /\ ct.ed.pc = "store"
  /\ ct' = [ct EXCEPT !.sbs = ct.ed.val, !.ed.pc = "get"]
  /\ UNCHANGED RestOfState

\* writer: a record is taken from eframe_queue
WriterDequeues ==
  /\ ct.tx.pc = "get" /\ ct.dequeued < MaxDequeued
  /\ ct' = [ct EXCEPT !.dequeued = @ + 1, !.tx = Loaded(ct)]
  /\ UNCHANGED RestOfState

WriterStores ==
  /\ ct.tx.pc = "store"
  /\ ct' = [ct EXCEPT !.sbs = ct.tx.val, !.tx.pc = "get"]
  /\ UNCHANGED RestOfState

\* get_statistics(): a copy of the dictionary
GetStatistics ==
  /\ ct.snap # ct.sbs \/ ct.prev # ct.snap
  /\ ct' = [ct EXCEPT !.prev = ct.snap, !.snap = ct.sbs]
  /\ UNCHANGED RestOfState

NextCount ==
  \/ DispatcherRejects
  \/ DispatcherStores
  \/ WriterDequeues
  \/ WriterStores
  \/ GetStatistics

SpecCount == Init /\ [][NextCount]_vars

MaxBusPoll == 1
MaxUpPoll == 2

\* one frame on the bus, two frames from the user application, and the
\* watchdogs expire
NextPoll ==
  \/ \E f \in LiveBus : BusFrame(f, MaxBusPoll)
  \/ \E f \in LiveUp : UpWrite(f, MaxUpPoll)
  \/ Threads
  \/ \E g \in Gresses : HandleTimeout(g)

SpecPoll == InitPart /\ [][NextPoll]_vars

(***************************************************************************)
(* C40: in participate mode the number of polrep records put on            *)
(* eframe_queue so far (those the writer has counted and those that wait)  *)
(* is at most the number of PQ signals the egress dispatcher has taken     *)
(* from edisp_queue.                                                       *)
(***************************************************************************)
PQConsumed == PQPut - CountOf(edisp_queue, IsPQ)

====
